---- MODULE Spec2Model ----
(***************************************************************************)
(* Request Governor (governance.py) and the governed upstream fetch of the *)
(* reconciliation pipeline (chart_engine.py).                              *)
(*                                                                         *)
(* Units.  The code keeps the token balance as a float and refills it by   *)
(* elapsed * (RPM_LIMIT / 60.0).  Here every token quantity is multiplied  *)
(* through by 60, so that the balance is an integer number of sixtieths of *)
(* a token whenever the clock readings are whole seconds: the refill of    *)
(* `elapsed` seconds is elapsed * RPM_LIMIT, one token is TOKEN, and the   *)
(* capacity is BURST_LIMIT * TOKEN.  Calendar dates are day numbers.       *)
(* The specifications SpecStatus and SpecUsed keep the balance as the      *)
(* code does, in IEEE doubles, written as triples of limbs.                *)
(***************************************************************************)
EXTENDS Integers, Sequences, FiniteSets, TLC

\* ---------------------------------------------------------------- constants
DAILY_LIMIT_APP == 850
RPM_LIMIT == 18
BURST_LIMIT == 6
TICKER_LIMIT == 30
POWER_SAVE_THRESHOLD == 150
SECONDS_PER_MINUTE == 60

\* One token, in the unit of the model (sixtieths of a token).
TOKEN == SECONDS_PER_MINUTE

\* ------------------------------------------------------------------- bounds
\* Last clock reading (seconds) of the sequential specification.
MaxClock == 4
\* Last calendar day; the first day is 1.
MaxDay == 2
\* Process restarts in one behaviour.
MaxRestarts == 1
\* A state file found at start-up holds counters that are 0 or within
\* NearLimit of their ceiling.
NearLimit == 1

\* Clock readings of the window specification are multiples of WindowStep
\* seconds, up to MaxWindowClock.
WindowStep == 4
MaxWindowClock == 64

\* Clock readings of the status specification: whole seconds up to
\* MaxStatusClock.
MaxStatusClock == 10

\* Days run() looks back: the `days` that days_map gives for period "1y",
\* for "3mo" and for "1mo" (the default), scaled down.
YearDays == 139
WindowDays == 9
ShortDays == 6
\* Clock readings per day at which run() can be called and a bar stamped.
TicksPerDay == 2

\* Symbols the callers ask for.
Keys == {"AMZN", "NVDA"}

\* The symbol the callers of the window specification ask for: the bucket is
\* one for all keys and allow_request reads the key in the per-ticker gate
\* alone, which a window's grants never reach.
WindowKeys == {"AMZN"}

\* Threads that call allow_request at the same time.
Threads == {"t1", "t2"}

VARIABLES
    state,              \* self.state: [date, daily_requests, tickers]
    tokens,             \* self.tokens (sixtieths of a token, or a double)
    last_token_update,  \* self.last_token_update
    file,               \* contents of STATE_FILE
    clock,              \* what time.time() returns (seconds)
    today,              \* what datetime.now() formats as %Y-%m-%d (day number)
    restarts,           \* process starts after the first
    grants_issued,      \* calls of allow_request that returned (True, "OK")
    http_issued,        \* upstream requests sent by _fetch_range
    last,               \* the last operation and what it returned
    boot,               \* the Governor as the callers first found it
    pc,                 \* per thread: where it stands in allow_request
    loc,                \* per thread: the locals of its allow_request call
    win_start,          \* clock reading at which the observed window opened
    win_grants,         \* grants whose call time fell in the observed window
    store,              \* rows of table ohlcv_v2
    report,             \* what the last ChartPipelineV2.run() returned
    ohlcv,              \* rows of table ohlcv, the legacy one
    ledger              \* an observer's books: the day's grants, the
                        \* Governor the same allow_request calls leave
                        \* when nobody asks for the status, and the
                        \* bucket as the last grant or get_status left it

vars == <<state, tokens, last_token_update, file, clock, today, restarts,
          grants_issued, http_issued, last, boot, pc, loc, win_start,
          win_grants, store, report, ohlcv, ledger>>

\* What the sequential callers never touch.
aux == <<boot, pc, loc, win_start, win_grants, store, report, ohlcv, ledger>>

\* ------------------------------------------------------------ the state file
\* The file is absent, holds text json.load rejects, or holds a saved dict.
NoData == [date |-> 0, daily_requests |-> 0, tickers |-> <<>>]
NoFile == [kind |-> "absent", data |-> NoData]
Unreadable == [kind |-> "unreadable", data |-> NoData]
Saved(st) == [kind |-> "json", data |-> st]

Min(a, b) == IF a <= b THEN a ELSE b

RECURSIVE SumOver(_, _)
SumOver(f, S) ==
    IF S = {} THEN 0
    ELSE LET k == CHOOSE x \in S : TRUE IN f[k] + SumOver(f, S \ {k})

\* The dict built by _init_state, for the date d.
FreshState(d) == [date |-> d, daily_requests |-> 0, tickers |-> [k \in Keys |-> 0]]

\* _load_state: the saved record is taken over when its date is today's;
\* an older record, a missing file and a file that does not parse all leave
\* the fresh counters.
LoadState(st, f, d) ==
    IF f.kind # "json" THEN st
    ELSE IF f.data.date = d THEN f.data
    ELSE [st EXCEPT !.date = d, !.daily_requests = 0,
                    !.tickers = [k \in Keys |-> 0]]

\* Outcomes of open(STATE_FILE, 'w') followed by json.dump.
WriteOutcomes == {"written", "open_failed", "dump_failed"}

\* _save_state: the record replaces the file; a failing open leaves the file
\* as it was, a failing dump leaves the file truncated.  No outcome raises.
SaveState(st, f, w) ==
    IF w = "written" THEN Saved(st)
    ELSE IF w = "open_failed" THEN f
    ELSE Unreadable

\* _refill_tokens without the min() against the capacity.
RefillTokensNoCap(tok, lu, now) ==
    [tokens |-> tok + (now - lu) * RPM_LIMIT, last_token_update |-> now]

\* _refill_tokens at clock reading now.
RefillTokens(tok, lu, now) ==
    [tokens |-> Min(BURST_LIMIT * TOKEN, tok + (now - lu) * RPM_LIMIT),
     last_token_update |-> now]

\* The Governor object as one value.
Gov == [state |-> state, tokens |-> tokens,
        last_token_update |-> last_token_update, file |-> file]

\* _init_state on day d at clock reading now, with the state file f.
InitState(f, d, now) ==
    [state |-> LoadState(FreshState(d), f, d),
     tokens |-> RPM_LIMIT * TOKEN,
     last_token_update |-> now,
     file |-> f]

REASON_OK == "OK"
REASON_DAILY == "Daily Budget Exceeded"
TickerReason(ticker) == "Ticker Limit (" \o ticker \o ") Exceeded"
REASON_RPM == "Rate Limited (RPM)"

\* A return of (False, why): nothing is written.
Reject(g, why) ==
    [granted |-> FALSE, reason |-> why, gov |-> g, saved |-> FALSE,
     write |-> "none"]

\* The grant branch saving the record before it counts the request.
GrantSavesFirst(r, ticker, w) ==
    LET st == [r.state EXCEPT !.daily_requests = @ + 1,
                              !.tickers[ticker] = r.state.tickers[ticker] + 1]
    IN [granted |-> TRUE, reason |-> REASON_OK, saved |-> TRUE, write |-> w,
        gov |-> [r EXCEPT !.tokens = @ - TOKEN, !.state = st,
                          !.file = SaveState(r.state, r.file, w)]]

\* The grant branch undoing the grant when the write fails.
GrantRolledBack(r, ticker, w) ==
    LET st == [r.state EXCEPT !.daily_requests = @ + 1,
                              !.tickers[ticker] = r.state.tickers[ticker] + 1]
    IN IF w = "written"
       THEN [granted |-> TRUE, reason |-> REASON_OK, saved |-> TRUE,
             write |-> w,
             gov |-> [r EXCEPT !.tokens = @ - TOKEN, !.state = st,
                               !.file = SaveState(st, r.file, w)]]
       ELSE [granted |-> FALSE, reason |-> "Save Error", saved |-> TRUE,
             write |-> w, gov |-> [r EXCEPT !.file = SaveState(st, r.file, w)]]

\* The grant branch counting the request in the total only.
GrantTotalOnly(r, ticker, w) ==
    LET st == [r.state EXCEPT !.daily_requests = @ + 1]
    IN [granted |-> TRUE, reason |-> REASON_OK, saved |-> TRUE, write |-> w,
        gov |-> [r EXCEPT !.tokens = @ - TOKEN, !.state = st,
                          !.file = SaveState(st, r.file, w)]]

\* The grant branch of allow_request, on the Governor r already refilled.
Grant(r, ticker, w) ==
    LET st == [r.state EXCEPT !.daily_requests = @ + 1,
                              !.tickers[ticker] = r.state.tickers[ticker] + 1]
    IN [granted |-> TRUE, reason |-> REASON_OK, saved |-> TRUE, write |-> w,
        gov |-> [r EXCEPT !.tokens = @ - TOKEN, !.state = st,
                          !.file = SaveState(st, r.file, w)]]

\* The daily gate with > for >=.
DailyGateOffByOne(g) == g.state.daily_requests > DAILY_LIMIT_APP

\* The daily gate of allow_request.
DailyGate(g) == g.state.daily_requests >= DAILY_LIMIT_APP

\* The per-ticker gate with > for >=.
TickerGateOffByOne(g, ticker) == g.state.tickers[ticker] > TICKER_LIMIT

\* The per-ticker gate of allow_request.
TickerGate(g, ticker) == g.state.tickers[ticker] >= TICKER_LIMIT

\* The token test of allow_request.
HasToken(tok) == tok >= TOKEN

\* allow_request counting the request before the token test.
allow_request_counts_first(g, ticker, now, w) ==
    IF DailyGate(g) THEN Reject(g, REASON_DAILY)
    ELSE IF TickerGate(g, ticker) THEN Reject(g, TickerReason(ticker))
    ELSE LET f == RefillTokens(g.tokens, g.last_token_update, now)
             r == [g EXCEPT !.tokens = f.tokens,
                            !.last_token_update = f.last_token_update]
             c == [r EXCEPT !.state.daily_requests = @ + 1]
         IN IF HasToken(r.tokens) THEN Grant(r, ticker, w)
            ELSE Reject(c, REASON_RPM)

\* allow_request with the per-ticker gate before the daily gate.
allow_request_ticker_first(g, ticker, now, w) ==
    IF TickerGate(g, ticker) THEN Reject(g, TickerReason(ticker))
    ELSE IF DailyGate(g) THEN Reject(g, REASON_DAILY)
    ELSE LET f == RefillTokens(g.tokens, g.last_token_update, now)
             r == [g EXCEPT !.tokens = f.tokens,
                            !.last_token_update = f.last_token_update]
         IN IF HasToken(r.tokens) THEN Grant(r, ticker, w)
            ELSE Reject(r, REASON_RPM)

\* allow_request(ticker) at clock reading now; w is the outcome of the write
\* a grant performs.
allow_request(g, ticker, now, w) ==
    IF DailyGate(g) THEN Reject(g, REASON_DAILY)
    ELSE IF TickerGate(g, ticker) THEN Reject(g, TickerReason(ticker))
    ELSE LET f == RefillTokens(g.tokens, g.last_token_update, now)
             r == [g EXCEPT !.tokens = f.tokens,
                            !.last_token_update = f.last_token_update]
         IN IF HasToken(r.tokens) THEN Grant(r, ticker, w)
            ELSE Reject(r, REASON_RPM)

\* get_status: refills, then reports.
get_status(g, now) ==
    LET f == RefillTokens(g.tokens, g.last_token_update, now)
    IN [g EXCEPT !.tokens = f.tokens, !.last_token_update = f.last_token_update]

\* Outcomes of the upstream request of _fetch_range.
HttpOutcomes == {"rows", "empty", "error_status", "exception"}

\* _fetch_range going on to the upstream request whatever the Governor said.
fetch_range_ungated(g, ticker, now, w, outcome) ==
    LET a == allow_request(g, ticker, now, w)
    IN [allowed |-> a.granted, reason |-> a.reason, gov |-> a.gov,
        saved |-> a.saved, write |-> a.write,
        http |-> TRUE,
        outcome |-> outcome]

\* _fetch_range giving the grant back when the request brought no rows.
fetch_range_refunding(g, ticker, now, w, outcome) ==
    LET a == allow_request(g, ticker, now, w)
    IN [allowed |-> a.granted, reason |-> a.reason,
        gov |-> IF a.granted /\ outcome \notin {"rows", "bad_rows"} THEN g
                ELSE a.gov,
        saved |-> a.saved, write |-> a.write,
        http |-> a.granted,
        outcome |-> IF a.granted THEN outcome ELSE "none"]

\* _fetch_range: the upstream request is sent only after a grant.
fetch_range(g, ticker, now, w, outcome) ==
    LET a == allow_request(g, ticker, now, w)
    IN [allowed |-> a.granted, reason |-> a.reason, gov |-> a.gov,
        saved |-> a.saved, write |-> a.write,
        http |-> a.granted,
        outcome |-> IF a.granted THEN outcome ELSE "none"]

\* ------------------------------------------------------------ the calendar
\* Days are numbered; day 1 is a Monday.  run() is called on day Today and
\* looks back days_map(period) days, at most YearDays.
Today == YearDays + 4

\* days_map.get(period, 35)
days_map(period) ==
    CASE period = "1y" -> YearDays
      [] period = "3mo" -> WindowDays
      [] OTHER -> ShortDays

\* A timestamp counts clock readings, TicksPerDay of them to the day; a
\* day's first reading is its midnight (UTC).
Midnight(d) == d * TicksPerDay

\* Timestamp.normalize(), as a day number.
DateOf(ts) == ts \div TicksPerDay

IsBusinessDay(d) == (d % 7) \in 1..5

\* Business days on which the exchange is closed.
Holidays == {Today - 7}

IsTradingDay(d) == IsBusinessDay(d) /\ d \notin Holidays

Max(a, b) == IF a >= b THEN a ELSE b

MinOf(S) == CHOOSE x \in S : \A y \in S : x <= y

MaxOf(S) == CHOOSE x \in S : \A y \in S : x >= y

\* get_expected_schedule claiming the exchange calendar in either branch.
get_expected_schedule_always_reliable(start_day, end_day, has_mcal) ==
    [dates |-> IF has_mcal
               THEN {d \in start_day..end_day : IsTradingDay(d)}
               ELSE {d \in start_day..end_day : IsBusinessDay(d)},
     reliability |-> TRUE]

\* get_expected_schedule: the exchange's sessions and True, or, without the
\* calendar package, the business days and False.
get_expected_schedule(start_day, end_day, has_mcal) ==
    IF has_mcal
    THEN [dates |-> {d \in start_day..end_day : IsTradingDay(d)},
          reliability |-> TRUE]
    ELSE [dates |-> {d \in start_day..end_day : IsBusinessDay(d)},
          reliability |-> FALSE]

\* --------------------------------------------------------- the price store
\* Prices of a bar that passes the OHLC rule, and of two that do not.
GoodBar == [Open |-> 2, High |-> 3, Low |-> 1, Close |-> 2]
LowAboveBody == [Open |-> 2, High |-> 3, Low |-> 3, Close |-> 1]
HighBelowBody == [Open |-> 2, High |-> 1, Low |-> 1, Close |-> 3]
BadBars == {LowAboveBody, HighBelowBody}

\* A row of a frame: what pd.DataFrame(data) holds after the renames, and
\* what get_v2 returns (source stands for the row's place in the frame: the
\* query does not select it).
Frame(ticker, ts, source, bar) ==
    [Ticker |-> ticker, Date |-> ts, source |-> source, Open |-> bar.Open,
     High |-> bar.High, Low |-> bar.Low, Close |-> bar.Close]

\* A primary key that leaves out the symbol.
RowKeyOfAnySymbol(r) == <<r.interval, r.timestamp, r.source, r.adjustment>>

\* The primary key of ohlcv_v2.
RowKey(r) == <<r.symbol, r.interval, r.timestamp, r.source, r.adjustment>>

\* The records save_v2 builds: one per frame row, interval "1d", adjustment
\* "raw".  A frame holds one row per Date.
Records(df, source) ==
    {[symbol |-> f.Ticker, interval |-> "1d", timestamp |-> f.Date,
      source |-> source, adjustment |-> "raw", open |-> f.Open,
      high |-> f.High, low |-> f.Low, close |-> f.Close] : f \in df}

\* INSERT without OR REPLACE.
InsertOnly(st, records) == st \cup records

\* INSERT OR REPLACE INTO ohlcv_v2 and the commit: a record takes the place
\* of the row of its primary key.
Upsert(st, records) ==
    {r \in st : \A n \in records : RowKey(n) # RowKey(r)} \cup records

\* save_v2
save_v2(st, df, source) == Upsert(st, Records(df, source))

\* A WHERE clause that leaves out the row at end_ts.
SelectedBefore(st, symbol, interval, start_ts, end_ts) ==
    {x \in st : /\ x.symbol = symbol
                /\ x.interval = interval
                /\ x.timestamp >= start_ts
                /\ x.timestamp < end_ts}

\* The WHERE clause of get_v2: the rows of a symbol and interval with
\* start_ts <= timestamp <= end_ts, of every source and adjustment.
Selected(st, symbol, interval, start_ts, end_ts) ==
    {x \in st : /\ x.symbol = symbol
                /\ x.interval = interval
                /\ x.timestamp >= start_ts
                /\ x.timestamp <= end_ts}

\* The columns get_v2 returns of a row.
FrameOf(r) ==
    [Ticker |-> r.symbol, Date |-> r.timestamp, source |-> r.source,
     Open |-> r.open, High |-> r.high, Low |-> r.low, Close |-> r.close]

\* ORDER BY timestamp DESC.
RECURSIVE OrderedDescending(_)
OrderedDescending(rows) ==
    IF rows = {} THEN {<<>>}
    ELSE UNION {{Append(s, r) : s \in OrderedDescending(rows \ {r})} :
                   r \in {x \in rows :
                            x.timestamp = MinOf({y.timestamp : y \in rows})}}

\* ORDER BY timestamp ASC: every order the query may return the rows in,
\* rows of one timestamp coming in any order.
RECURSIVE OrderedByTimestamp(_)
OrderedByTimestamp(rows) ==
    IF rows = {} THEN {<<>>}
    ELSE UNION {{<<r>> \o s : s \in OrderedByTimestamp(rows \ {r})} :
                   r \in {x \in rows :
                            x.timestamp = MinOf({y.timestamp : y \in rows})}}

\* get_v2 with the order of its rows: the frames it may return.
get_v2_rows(st, symbol, interval, start_ts, end_ts) ==
    {[i \in 1..Len(s) |-> FrameOf(s[i])] :
        s \in OrderedByTimestamp(Selected(st, symbol, interval, start_ts,
                                          end_ts))}

\* get_v2, as the set of the rows of the frame it returns.
get_v2(st, symbol, interval, start_ts, end_ts) ==
    {FrameOf(r) : r \in Selected(st, symbol, interval, start_ts, end_ts)}

\* invalid_mask of run(): Low > min(Open, Close) or High < max(Open, Close).
InvalidOhlc(f) ==
    \/ f.Low > Min(f.Open, f.Close)
    \/ f.High < Max(f.Open, f.Close)

\* ------------------------------------------------------------------- gaps
\* Coverage is kept as the fraction num / den.
Ratio(n, d) == [num |-> n, den |-> d]

\* coverage < n / d
Below(cov, n, d) == cov.num * d < n * cov.den

\* coverage as the share of missing days, the complement forgotten.
CoverageOfShare(missing, expected) ==
    IF Cardinality(expected) > 0
    THEN Ratio(Cardinality(missing), Cardinality(expected))
    ELSE Ratio(0, 1)

\* 1.0 - len(missing_dates) / len(expected_dates), 0.0 without expected days.
CoverageOf(missing, expected) ==
    IF Cardinality(expected) > 0
    THEN Ratio(Cardinality(expected) - Cardinality(missing),
               Cardinality(expected))
    ELSE Ratio(0, 1)

\* _calculate_gaps reporting an empty frame as fully covered.
calculate_gaps_full_when_empty(df, expected_dates, now_day) ==
    IF df = {}
    THEN [missing_dates |-> expected_dates, coverage |-> Ratio(1, 1)]
    ELSE LET actual == {DateOf(f.Date) : f \in df}
             missing == {d \in expected_dates \ actual : d < now_day}
         IN [missing_dates |-> missing,
             coverage |-> CoverageOf(missing, expected_dates)]

\* _calculate_gaps; now_day is utcnow().date().
calculate_gaps(df, expected_dates, now_day) ==
    IF df = {}
    THEN [missing_dates |-> expected_dates, coverage |-> Ratio(0, 1)]
    ELSE LET actual == {DateOf(f.Date) : f \in df}
             missing == {d \in expected_dates \ actual : d < now_day}
         IN [missing_dates |-> missing,
             coverage |-> CoverageOf(missing, expected_dates)]

\* ---------------------------------------------------------------- fetching
\* What the upstream request of _fetch_range can come back with: bars, bars
\* of which the first breaks the OHLC rule, 200 without data, a status other
\* than 200 (429 apart from the others), requests.get raising (timeout,
\* connection), and a body that res.json() or the frame conversion raises on.
RunResponses ==
    {"rows", "bad_rows", "empty", "error_status", "status_429", "exception",
     "malformed"}

\* The sessions the upstream has daily bars for, each stamped at midnight.
UpstreamDays(start_ts, end_ts) ==
    {d \in 0..Today : /\ IsTradingDay(d)
                      /\ Midnight(d) >= start_ts
                      /\ Midnight(d) <= end_ts}

\* _fetch_range reading the data of an answer of status 429 as well.
UpstreamDataOfAnyStatus(ticker, start_ts, end_ts, resp) ==
    LET days == UpstreamDays(start_ts, end_ts)
    IN IF resp \in {"rows", "status_429"}
       THEN {Frame(ticker, Midnight(d), "upstream", GoodBar) : d \in days}
       ELSE {}

\* The frame _fetch_range builds from a 200 answer's data.
UpstreamData(ticker, start_ts, end_ts, resp) ==
    LET days == UpstreamDays(start_ts, end_ts)
    IN IF resp = "rows"
       THEN {Frame(ticker, Midnight(d), "upstream", GoodBar) : d \in days}
       ELSE IF resp = "bad_rows"
       THEN {Frame(ticker, Midnight(d), "upstream",
                   IF d = MinOf(days) THEN LowAboveBody ELSE GoodBar) :
                d \in days}
       ELSE {}

\* What one _fetch_range leaves: r is what the Governor and the request
\* came to; the bars of a 200 answer with data are saved under source
\* "finazon".  uncaught says whether what raises inside the try leaves
\* _fetch_range.
Fetched(r, st, ticker, start_ts, end_ts, label, resp, uncaught) ==
    LET data == IF r.http THEN UpstreamData(ticker, start_ts, end_ts, resp)
                ELSE {}
    IN [gov |-> r.gov,
        store |-> IF data # {} THEN save_v2(st, data, "finazon") ELSE st,
        count |-> Cardinality(data),
        attempt |-> [label |-> label, start_ts |-> start_ts,
                     end_ts |-> end_ts, allowed |-> r.allowed,
                     reason |-> r.reason, http |-> r.http,
                     outcome |-> r.outcome, write |-> r.write,
                     count |-> Cardinality(data), wrote |-> data # {},
                     raised |-> /\ uncaught
                                /\ r.http
                                /\ resp \in {"exception", "malformed"}]]

\* _fetch_range without its try: what requests.get, res.json() or the frame
\* conversion raises leaves _fetch_range, and run(), as an exception.
fetch_and_save_uncaught(g, st, ticker, start_ts, end_ts, label, now, w, resp) ==
    Fetched(fetch_range(g, ticker, now, w, resp), st, ticker, start_ts,
            end_ts, label, resp, TRUE)

\* _fetch_range with the store: everything that raises inside the try is
\* caught and counts for 0 rows.
fetch_and_save(g, st, ticker, start_ts, end_ts, label, now, w, resp) ==
    Fetched(fetch_range(g, ticker, now, w, resp), st, ticker, start_ts,
            end_ts, label, resp, FALSE)

\* The i-th answer of the upstream during one run().
Resp(rs, i) == IF i \in DOMAIN rs THEN rs[i] ELSE "empty"

\* -------------------------------------------------------------- smart fill
\* needs_fill without the high-water test.
NeedsFillAlways(coverage) == TRUE

\* needs_fill of run().
NeedsFill(coverage) == Below(coverage, 99, 100)

\* The fill entered without a credential.
HasCredentialAlways(finazon_key) == TRUE

\* `if needs_fill and finazon_key`: None and "" are no credential.
HasCredential(finazon_key) == finazon_key # ""

\* Strategy A taken at the low-water mark itself.
IsRebuildAtLowWater(coverage) == ~Below(Ratio(6, 10), coverage.num, coverage.den)

\* Strategy A of _smart_fill.
IsRebuild(coverage) == Below(coverage, 6, 10)

\* The grouping with a break only where more than a weekend lies between two
\* dates.
RECURSIVE GroupRunsAcrossWeekends(_, _)
GroupRunsAcrossWeekends(dates, acc) ==
    IF dates = {} THEN acc
    ELSE LET d == MinOf(dates)
             n == Len(acc)
         IN IF n > 0 /\ d - MaxOf(acc[n]) <= 3
            THEN GroupRunsAcrossWeekends(dates \ {d},
                                         [acc EXCEPT ![n] = @ \cup {d}])
            ELSE GroupRunsAcrossWeekends(dates \ {d}, Append(acc, {d}))

\* The missing dates grouped into runs of consecutive calendar days, in
\* date order: a difference of more than one day starts a new group.
RECURSIVE GroupRuns(_, _)
GroupRuns(dates, acc) ==
    IF dates = {} THEN acc
    ELSE LET d == MinOf(dates)
             n == Len(acc)
         IN IF n > 0 /\ d - MaxOf(acc[n]) <= 1
            THEN GroupRuns(dates \ {d}, [acc EXCEPT ![n] = @ \cup {d}])
            ELSE GroupRuns(dates \ {d}, Append(acc, {d}))

\* list.sort(key=len, reverse=True): longest first, equal lengths in their
\* earlier order.
InsertByLen(sorted, grp) ==
    LET k == Cardinality({i \in 1..Len(sorted) :
                             Cardinality(sorted[i]) >= Cardinality(grp)})
    IN SubSeq(sorted, 1, k) \o <<grp>> \o SubSeq(sorted, k + 1, Len(sorted))

\* target_groups left in date order.
SortGroupsAsFound(groups, sorted) == groups

RECURSIVE SortGroups(_, _)
SortGroups(groups, sorted) ==
    IF groups = <<>> THEN sorted
    ELSE SortGroups(Tail(groups), InsertByLen(sorted, Head(groups)))

\* target_groups without the slice.
TopGroupsAll(groups) == groups

\* target_groups[:2]
TopGroups(groups) == SubSeq(groups, 1, Min(2, Len(groups)))

NoFill(g, st) == [gov |-> g, store |-> st, total |-> 0, attempts |-> <<>>]

\* total_fetched += count, after the fetch f.
Fetch(acc, f) ==
    [gov |-> f.gov, store |-> f.store, total |-> acc.total + f.count,
     attempts |-> Append(acc.attempts, f.attempt)]

\* One _fetch_range for the group grp.
FetchGroup(acc, ticker, grp, now, w, rs) ==
    Fetch(acc, fetch_and_save(acc.gov, acc.store, ticker,
                              Midnight(MinOf(grp)), Midnight(MaxOf(grp) + 1),
                              "GapFill", now, w,
                              Resp(rs, Len(acc.attempts) + 1)))

\* The loop of Strategy B leaving at the first request that brought no rows.
RECURSIVE FetchGroupsUntilFailure(_, _, _, _, _, _)
FetchGroupsUntilFailure(acc, ticker, groups, now, w, rs) ==
    IF groups = <<>> THEN acc
    ELSE IF /\ acc.attempts # <<>>
            /\ acc.attempts[Len(acc.attempts)].http
            /\ acc.attempts[Len(acc.attempts)].count = 0
    THEN acc
    ELSE FetchGroupsUntilFailure(
             FetchGroup(acc, ticker, Head(groups), now, w, rs),
             ticker, Tail(groups), now, w, rs)

\* The loop of Strategy B: one _fetch_range per group, from the group's
\* first midnight to the midnight after its last day.
RECURSIVE FetchGroups(_, _, _, _, _, _)
FetchGroups(acc, ticker, groups, now, w, rs) ==
    IF groups = <<>> THEN acc
    ELSE FetchGroups(FetchGroup(acc, ticker, Head(groups), now, w, rs),
                     ticker, Tail(groups), now, w, rs)

\* _smart_fill
smart_fill(g, st, ticker, coverage, missing_dates, start_ts, end_ts, now, w, rs) ==
    IF IsRebuild(coverage)
    THEN Fetch(NoFill(g, st),
               fetch_and_save(g, st, ticker, start_ts, end_ts, "Rebuild",
                              now, w, Resp(rs, 1)))
    ELSE IF missing_dates = {} THEN NoFill(g, st)
    ELSE FetchGroups(NoFill(g, st), ticker,
                     TopGroups(SortGroups(GroupRuns(missing_dates, <<>>),
                                          <<>>)),
                     now, w, rs)

\* -------------------------------------------------------------------- run()
SOURCE_CACHED == "DB (Cached)"

\* f"DB + Filled ({filled_total} rows)"
SourceFilled(filled_total) ==
    "DB + Filled (" \o ToString(filled_total) \o " rows)"

\* The rows of a frame that pass the OHLC rule: df[~invalid_mask].
Validated(df) == {f \in df : ~InvalidOhlc(f)}

\* Steps 1 to 4 of run() called at reading tod of Today: the range, the
\* query, the OHLC validation and the gap calculation; has_mcal says whether
\* the calendar package was imported.
Query(st, ticker, interval, period, has_mcal, tod) ==
    LET end_ts == Midnight(Today) + tod
        start_ts == end_ts - Midnight(days_map(period))
        df0 == get_v2(st, ticker, interval, start_ts, end_ts)
        sched == get_expected_schedule(DateOf(start_ts), DateOf(end_ts),
                                       has_mcal)
    IN [start_ts |-> start_ts, end_ts |-> end_ts, loaded |-> df0,
        invalid_ohlc_count |-> Cardinality({f \in df0 : InvalidOhlc(f)}),
        df |-> Validated(df0), sched |-> sched,
        gaps |-> calculate_gaps(Validated(df0), sched.dates, Today)]

\* Step 5 of run(): the call of _smart_fill, if any.
Fill(q, g, st, ticker, finazon_key, now, w, rs) ==
    IF NeedsFill(q.gaps.coverage) /\ HasCredential(finazon_key)
    THEN smart_fill(g, st, ticker, q.gaps.coverage, q.gaps.missing_dates,
                    q.start_ts, q.end_ts, now, w, rs)
    ELSE NoFill(g, st)

\* run() returning what it computed before the fill.
RefreshKept(q, fill, ticker, interval) ==
    [reread |-> FALSE, reloaded |-> {}, df |-> q.df, gaps |-> q.gaps]

\* The refresh after a fill that brought rows.
Refresh(q, fill, ticker, interval) ==
    LET reread == fill.total > 0
        reloaded == IF reread
                    THEN get_v2(fill.store, ticker, interval, q.start_ts,
                                q.end_ts)
                    ELSE {}
        df2 == IF reread THEN Validated(reloaded) ELSE q.df
    IN [reread |-> reread, reloaded |-> reloaded, df |-> df2,
        gaps |-> IF reread THEN calculate_gaps(df2, q.sched.dates, Today)
                 ELSE q.gaps]

\* What run() leaves and returns after the query q, the fill and the
\* refresh f.
Returned(q, fill, f, ticker, period, finazon_key, has_mcal) ==
    [gov |-> fill.gov,
     store |-> fill.store,
     report |->
       [ran |-> TRUE,
        raised |-> \E i \in 1..Len(fill.attempts) : fill.attempts[i].raised,
        ticker |-> ticker,
        period |-> period,
        finazon_key |-> finazon_key,
        has_mcal |-> has_mcal,
        start_ts |-> q.start_ts,
        end_ts |-> q.end_ts,
        loaded |-> q.loaded,
        first |-> q.gaps,
        reread |-> f.reread,
        reloaded |-> f.reloaded,
        attempts |-> fill.attempts,
        df |-> f.df,
        coverage |-> f.gaps.coverage,
        missing_count |-> Cardinality(f.gaps.missing_dates),
        source |-> IF f.reread THEN SourceFilled(fill.total)
                   ELSE SOURCE_CACHED,
        reliability |-> q.sched.reliability,
        expected_days_count |-> Cardinality(q.sched.dates),
        expected_dates |-> q.sched.dates,
        invalid_ohlc_count |-> q.invalid_ohlc_count,
        missing_dates |-> f.gaps.missing_dates]]

\* Steps 5 and 6 of run() after the query q and the fill.
Refreshed(q, fill, ticker, interval, period, finazon_key, has_mcal) ==
    Returned(q, fill, Refresh(q, fill, ticker, interval), ticker, period,
             finazon_key, has_mcal)

\* run() after the query q.
Filled(q, g, st, ticker, interval, period, finazon_key, has_mcal, now, w, rs) ==
    Refreshed(q, Fill(q, g, st, ticker, finazon_key, now, w, rs), ticker,
              interval, period, finazon_key, has_mcal)

\* run(ticker, interval, period, finazon_key) called at reading tod of Today;
\* now is what the Governor's time.time() returns, w what becomes of the
\* Governor's writes and rs what the upstream answers.  Returns the Governor
\* and the store as run() leaves them and, under report, the dict run()
\* returns; loaded, first, reread, reloaded, attempts and the window are
\* what happened on the way.
run(g, st, ticker, interval, period, finazon_key, has_mcal, tod, now, w, rs) ==
    Filled(Query(st, ticker, interval, period, has_mcal, tod), g, st, ticker,
           interval, period, finazon_key, has_mcal, now, w, rs)

\* Before the first run().
NoReport ==
    [ran |-> FALSE, raised |-> FALSE, ticker |-> "", period |-> "",
     finazon_key |-> "",
     has_mcal |-> FALSE, start_ts |-> 0, end_ts |-> 0, loaded |-> {},
     first |-> [missing_dates |-> {}, coverage |-> Ratio(0, 1)],
     reread |-> FALSE, reloaded |-> {}, attempts |-> <<>>, df |-> {},
     coverage |-> Ratio(0, 1), missing_count |-> 0, source |-> "",
     reliability |-> FALSE, expected_days_count |-> 0,
     expected_dates |-> {}, invalid_ohlc_count |-> 0, missing_dates |-> {}]

\* ------------------------------------------------------------------ start-up
\* Counter values a state file found at start-up may hold.
NearValues(limit) == {0} \cup {n \in (limit - NearLimit)..limit : n >= 0}

\* Records an earlier process of this program can have written: per-key
\* counts never above their ceiling, the total never above its ceiling, and
\* the total at least the counts of the keys modelled (the rest belongs to
\* keys no caller of this model asks for).
SavedRecords ==
    {r \in [date : {0, 1},
            daily_requests : NearValues(DAILY_LIMIT_APP),
            tickers : [Keys -> NearValues(TICKER_LIMIT)]] :
        /\ SumOver(r.tickers, Keys) <= r.daily_requests
        /\ r.date = 0 => r.daily_requests = DAILY_LIMIT_APP}

StartFiles == {NoFile, Unreadable} \cup {Saved(r) : r \in SavedRecords}

NoOp == [op |-> "start", ticker |-> "", granted |-> FALSE, reason |-> "",
         saved |-> FALSE, write |-> "none", http |-> FALSE,
         outcome |-> "none"]

SetGov(g) ==
    /\ state' = g.state
    /\ tokens' = g.tokens
    /\ last_token_update' = g.last_token_update
    /\ file' = g.file

NoLocals == [ticker |-> "", ticker_usage |-> 0, now |-> 0, refill |-> 0,
             tmp |-> 0, granted |-> FALSE, reason |-> ""]

\* The books before anyone keeps them.
NoLedger ==
    [gov |-> NoData, granted |-> FALSE, reason |-> "", today |-> 0,
     base |-> [tokens |-> 0, last_token_update |-> 0]]

\* The callers and the observers at process start.
InitProcess ==
    /\ clock = 0
    /\ today = 1
    /\ restarts = 0
    /\ grants_issued = 0
    /\ http_issued = 0
    /\ last = NoOp
    /\ pc = [t \in Threads |-> "idle"]
    /\ loc = [t \in Threads |-> NoLocals]
    /\ win_start = -1
    /\ win_grants = 0
    /\ report = NoReport
    /\ ohlcv = {}

InitCallers ==
    /\ InitProcess
    /\ ledger = NoLedger

\* Everything but the Governor, at process start, on an empty store.
InitRest ==
    /\ InitCallers
    /\ store = {}

InitGov(g) ==
    /\ state = g.state
    /\ tokens = g.tokens
    /\ last_token_update = g.last_token_update
    /\ file = g.file
    /\ boot = [state |-> g.state, tokens |-> g.tokens]

Init ==
    /\ InitRest
    /\ \E f \in StartFiles : InitGov(InitState(f, 1, 0))

\* ------------------------------------------------------------------- actions
\* A caller runs gov.allow_request(k).
DoAllow(k, w) ==
    LET a == allow_request(Gov, k, clock, w)
    IN /\ SetGov(a.gov)
       /\ grants_issued' = grants_issued + (IF a.granted THEN 1 ELSE 0)
       /\ last' = [NoOp EXCEPT !.op = "allow", !.ticker = k,
                               !.granted = a.granted, !.reason = a.reason,
                               !.saved = a.saved, !.write = a.write]
       /\ UNCHANGED <<clock, today, restarts, http_issued>>

AllowRequest(k) ==
    /\ \E w \in WriteOutcomes : DoAllow(k, w)
    /\ UNCHANGED aux

\* A caller runs gov.get_status().
GetStatus ==
    /\ SetGov(get_status(Gov, clock))
    /\ last' = [NoOp EXCEPT !.op = "status"]
    /\ UNCHANGED <<clock, today, restarts, grants_issued, http_issued>>
    /\ UNCHANGED aux

\* The pipeline runs _fetch_range(k, ...).
FetchRange(k) ==
    \E w \in WriteOutcomes, o \in HttpOutcomes :
      LET r == fetch_range(Gov, k, clock, w, o)
      IN /\ SetGov(r.gov)
         /\ grants_issued' = grants_issued + (IF r.allowed THEN 1 ELSE 0)
         /\ http_issued' = http_issued + (IF r.http THEN 1 ELSE 0)
         /\ last' = [op |-> "fetch", ticker |-> k, granted |-> r.allowed,
                     reason |-> r.reason, saved |-> r.saved,
                     write |-> r.write, http |-> r.http,
                     outcome |-> r.outcome]
         /\ UNCHANGED <<clock, today, restarts>>
         /\ UNCHANGED aux

\* A second of wall-clock time passes.
Tick ==
    /\ clock < MaxClock
    /\ clock' = clock + 1
    /\ UNCHANGED <<state, tokens, last_token_update, file, today, restarts,
                   grants_issued, http_issued, last>>
    /\ UNCHANGED aux

\* Midnight passes.
NextDay ==
    /\ today < MaxDay
    /\ today' = today + 1
    /\ UNCHANGED <<state, tokens, last_token_update, file, clock, restarts,
                   grants_issued, http_issued, last>>
    /\ UNCHANGED aux

\* The process is started again: the module-level gov = FinazonGovernance()
\* builds the singleton anew from the state file.
Restart ==
    /\ restarts < MaxRestarts
    /\ restarts' = restarts + 1
    /\ SetGov(InitState(file, today, clock))
    /\ last' = [NoOp EXCEPT !.op = "restart"]
    /\ UNCHANGED <<clock, today, grants_issued, http_issued>>
    /\ UNCHANGED aux

\* Records of today that leave the total one or two bursts below its
\* ceiling, and the first key none or one burst below its cap.
GateRecords ==
    {[date |-> 1, daily_requests |-> d,
      tickers |-> [k \in Keys |-> IF k \in WindowKeys THEN n ELSE 0]] :
       d \in {DAILY_LIMIT_APP - 2 * BURST_LIMIT,
              DAILY_LIMIT_APP - BURST_LIMIT},
       n \in {0, TICKER_LIMIT - BURST_LIMIT}}

\* A process started on such a record.
InitGates ==
    /\ InitRest
    /\ \E r \in GateRecords : InitGov(InitState(Saved(r), 1, 0))

\* Calls of allow_request in the seconds after start-up, whatever
\* becomes of the writes.
NextGates ==
    \/ \E k \in Keys : AllowRequest(k)
    \/ Tick

SpecGates == InitGates /\ [][NextGates]_vars

\* A process started on a fresh day: no file, an unreadable one, or the
\* record of an earlier day.
FreshFiles ==
    {NoFile, Unreadable,
     Saved([FreshState(0) EXCEPT !.daily_requests = DAILY_LIMIT_APP])}

InitFresh ==
    /\ InitRest
    /\ \E f \in FreshFiles : InitGov(InitState(f, 1, 0))

\* Calls of allow_request and get_status, one after the other, while
\* seconds and midnight pass.
NextFresh ==
    \/ \E k \in Keys : AllowRequest(k)
    \/ GetStatus
    \/ Tick
    \/ NextDay

SpecFresh == InitFresh /\ [][NextFresh]_vars

\* ------------------------------------------- the bucket in the code's doubles
\* self.tokens is a Python float.  A double d with 0 <= d < 32 that is a
\* multiple of 2^-54 is written <<a, b, c>>, d = (a * Limb^2 + b * Limb + c)
\* * 2^-54 with b, c < Limb: 1.0 is <<2^14, 0, 0>>.  Every value the bucket
\* takes when the clock is read at whole seconds is such a multiple.
Limb == 2^20

FromInt(n) == <<n * 2^14, 0, 0>>

\* RPM_LIMIT / 60.0: the double nearest to 0.3, 5404319552844595 * 2^-54.
RefillRate == <<4915, 209715, 209715>>

Carry(x) ==
    <<x[1] + (x[2] + x[3] \div Limb) \div Limb,
      (x[2] + x[3] \div Limb) % Limb,
      x[3] % Limb>>

\* The spacing of the doubles around a value with first limb a, in units of
\* 2^-54: 53 significant bits.
Spacing(a) ==
    IF a < 2^13 THEN 1
    ELSE IF a < 2^14 THEN 2
    ELSE IF a < 2^15 THEN 4
    ELSE IF a < 2^16 THEN 8
    ELSE IF a < 2^17 THEN 16
    ELSE IF a < 2^18 THEN 32
    ELSE 64

\* Round to nearest, ties to even, of a value with limbs in range.
Nearest(x, u) ==
    Carry(<<x[1], x[2],
            (x[3] \div u
             + (IF \/ 2 * (x[3] % u) > u
                   \/ 2 * (x[3] % u) = u /\ (x[3] \div u) % 2 = 1
                THEN 1 ELSE 0)) * u>>)

RoundToDouble(x) == Nearest(Carry(x), Spacing(Carry(x)[1]))

\* x + y, elapsed * x, x < y and x - 1.0 as the machine computes them.
AddDouble(x, y) == RoundToDouble(<<x[1] + y[1], x[2] + y[2], x[3] + y[3]>>)

TimesDouble(n, x) == RoundToDouble(<<n * x[1], n * x[2], n * x[3]>>)

LessDouble(x, y) ==
    \/ x[1] < y[1]
    \/ x[1] = y[1] /\ x[2] < y[2]
    \/ x[1] = y[1] /\ x[2] = y[2] /\ x[3] < y[3]

MinusOne(x) == <<x[1] - 2^14, x[2], x[3]>>

\* min(self.BURST_LIMIT, total)
Capped(total) ==
    IF LessDouble(FromInt(BURST_LIMIT), total) THEN FromInt(BURST_LIMIT)
    ELSE total

\* _refill_tokens at clock reading now.
refill_tokens(tok, lu, now) ==
    [tokens |-> Capped(AddDouble(tok, TimesDouble(now - lu, RefillRate))),
     last_token_update |-> now]

\* The Governor after _refill_tokens.
AfterRefill(g, f) ==
    [g EXCEPT !.tokens = f.tokens, !.last_token_update = f.last_token_update]

\* The grant of allow_request: a token taken, the counters and the file.
GrantOne(r, st, w) ==
    [granted |-> TRUE, reason |-> REASON_OK, saved |-> TRUE, write |-> w,
     gov |-> [r EXCEPT !.tokens = MinusOne(@), !.state = st,
                       !.file = SaveState(st, r.file, w)]]

\* The bucket's part of allow_request, after the refill.
Take(r, ticker, w) ==
    IF ~LessDouble(r.tokens, FromInt(1))
    THEN GrantOne(r, [r.state EXCEPT
                        !.daily_requests = @ + 1,
                        !.tickers[ticker] = r.state.tickers[ticker] + 1], w)
    ELSE Reject(r, REASON_RPM)

\* allow_request(ticker)
allow(g, ticker, now, w) ==
    IF DailyGate(g) THEN Reject(g, REASON_DAILY)
    ELSE IF TickerGate(g, ticker) THEN Reject(g, TickerReason(ticker))
    ELSE Take(AfterRefill(g, refill_tokens(g.tokens, g.last_token_update, now)),
              ticker, w)

\* is_power_saving
is_power_saving(g) ==
    DAILY_LIMIT_APP - g.state.daily_requests < POWER_SAVE_THRESHOLD

\* get_status: the Governor it leaves, and the dict it returns but for
\* rpm_tokens.
status(g, now) ==
    [gov |-> AfterRefill(g, refill_tokens(g.tokens, g.last_token_update, now)),
     used |-> g.state.daily_requests,
     remaining |-> DAILY_LIMIT_APP - g.state.daily_requests,
     power_save |-> is_power_saving(g)]

\* The Governor a process builds from file f: self.tokens = self.RPM_LIMIT.
Constructed(f, d, now) ==
    [InitState(f, d, now) EXCEPT !.tokens = FromInt(RPM_LIMIT)]

\* The bucket of a Governor: the balance and the time it was brought to.
Bucket(g) == [tokens |-> g.tokens, last_token_update |-> g.last_token_update]

\* The call, on the Governor and on the one of the books; the books keep
\* the bucket as the last grant or get_status left it.
Allow(k) ==
    /\ \E a \in {allow(Gov, k, clock, "written")},
          b \in {allow(ledger.gov, k, clock, "written")} :
         /\ SetGov(a.gov)
         /\ grants_issued' = grants_issued + (IF a.granted THEN 1 ELSE 0)
         /\ last' = [NoOp EXCEPT !.op = "allow", !.ticker = k,
                                 !.granted = a.granted, !.reason = a.reason,
                                 !.saved = a.saved, !.write = a.write]
         /\ ledger' = [gov |-> b.gov, granted |-> b.granted,
                       reason |-> b.reason,
                       today |-> ledger.today + (IF a.granted THEN 1 ELSE 0),
                       base |-> IF a.granted THEN Bucket(a.gov)
                                ELSE ledger.base]
    /\ UNCHANGED <<clock, today, restarts, http_issued, boot, pc, loc,
                   win_start, win_grants, store, report, ohlcv>>

\* get_status(), on the Governor only.
Status ==
    /\ \E s \in {status(Gov, clock)} :
         /\ SetGov(s.gov)
         /\ last' = [op |-> "status", used |-> s.used,
                     remaining |-> s.remaining, power_save |-> s.power_save]
         /\ ledger' = [ledger EXCEPT !.base = Bucket(s.gov)]
    /\ UNCHANGED <<clock, today, restarts, grants_issued, http_issued, boot,
                   pc, loc, win_start, win_grants, store, report, ohlcv>>

\* A second passes.
Second ==
    /\ clock < MaxStatusClock
    /\ clock' = clock + 1
    /\ UNCHANGED <<state, tokens, last_token_update, file, today, restarts,
                   grants_issued, http_issued, last>>
    /\ UNCHANGED aux

\* Midnight passes: the books open a new day.
DayTurns ==
    /\ today < MaxDay
    /\ today' = today + 1
    /\ ledger' = [ledger EXCEPT !.today = 0]
    /\ UNCHANGED <<state, tokens, last_token_update, file, clock, restarts,
                   grants_issued, http_issued, last, boot, pc, loc,
                   win_start, win_grants, store, report, ohlcv>>

\* A process started on day 1, on no file or on the day's file of a process
\* that ran before it.
StatusGovs ==
    {Constructed(f, 1, 0) :
        f \in {NoFile,
               Saved([FreshState(1) EXCEPT
                        !.daily_requests =
                            DAILY_LIMIT_APP - POWER_SAVE_THRESHOLD - 2])}}

\* The books of a process that starts as g: the day's grants are those
\* of the day's file.
InitBooks(g) ==
    /\ InitProcess
    /\ store = {}
    /\ InitGov(g)
    /\ ledger = [gov |-> g, granted |-> FALSE, reason |-> "",
                 today |-> g.state.daily_requests, base |-> Bucket(g)]

\* Calls of allow_request and get_status at whole seconds of one day.
InitStatus == InitBooks(Constructed(NoFile, 1, 0))

NextStatus ==
    \/ \E k \in WindowKeys : Allow(k)
    \/ Status
    \/ Second

SpecStatus == InitStatus /\ [][NextStatus]_vars

\* Calls of allow_request and get_status over the days, in the first
\* seconds of the process.
EarlySecond == clock < MaxClock /\ Second

InitUsed == \E g \in StatusGovs : InitBooks(g)

NextUsed ==
    \/ \E k \in WindowKeys : Allow(k)
    \/ Status
    \/ EarlySecond
    \/ DayTurns

SpecUsed == InitUsed /\ [][NextUsed]_vars

\* The process is started again: the singleton is built anew from the state
\* file, and the books go on with the day's count.
Reboot ==
    /\ restarts < MaxRestarts
    /\ restarts' = restarts + 1
    /\ \E g \in {Constructed(file, today, clock)} :
         /\ SetGov(g)
         /\ ledger' = [ledger EXCEPT !.gov = g, !.base = Bucket(g)]
    /\ last' = [NoOp EXCEPT !.op = "restart"]
    /\ UNCHANGED <<clock, today, grants_issued, http_issued, boot, pc, loc,
                   win_start, win_grants, store, report, ohlcv>>

\* Files of day 1 that leave the total one grant below its ceiling and no
\* key at its cap, and no file.
BootFiles ==
    {NoFile}
    \cup {Saved(r) : r \in {x \in SavedRecords :
                               /\ x.date = 1
                               /\ x.daily_requests = DAILY_LIMIT_APP - 1
                               /\ \A k \in Keys :
                                    x.tickers[k] < TICKER_LIMIT}}

\* A process started on day 1, the callers of allow_request, restarts and
\* midnight; every write of the state file goes through.
InitBoot == \E f \in BootFiles : InitBooks(Constructed(f, 1, 0))

NextBoot ==
    \/ \E k \in WindowKeys : Allow(k)
    \/ Reboot
    \/ EarlySecond
    \/ DayTurns

SpecBoot == InitBoot /\ [][NextBoot]_vars

\* ------------------------------------------------- concurrent allow_request
\* allow_request holds no lock.  Each action below is one read or one write
\* of the shared Governor by thread t; the interpreter may switch threads
\* between any two of them.
seq == <<clock, today, restarts, http_issued, last, boot, win_start,
         win_grants, store, report, ohlcv, ledger>>

Goto(t, label) == pc' = [pc EXCEPT ![t] = label]

Return(t, ok, why) ==
    /\ pc' = [pc EXCEPT ![t] = "done"]
    /\ loc' = [loc EXCEPT ![t].granted = ok, ![t].reason = why]

\* Thread t enters allow_request(k).
CCall(t, k) ==
    /\ pc[t] = "idle"
    /\ Goto(t, "daily_gate")
    /\ loc' = [loc EXCEPT ![t].ticker = k]
    /\ UNCHANGED <<state, tokens, last_token_update, file, grants_issued>>
    /\ UNCHANGED seq

\* if self.state["daily_requests"] >= self.DAILY_LIMIT_APP: return
CDailyGate(t) ==
    /\ pc[t] = "daily_gate"
    /\ IF DailyGate(Gov)
       THEN Return(t, FALSE, REASON_DAILY)
       ELSE Goto(t, "ticker_gate") /\ UNCHANGED loc
    /\ UNCHANGED <<state, tokens, last_token_update, file, grants_issued>>
    /\ UNCHANGED seq

\* ticker_usage = self.state["tickers"].get(ticker, 0); if ... >= 30: return
CTickerGate(t) ==
    /\ pc[t] = "ticker_gate"
    /\ IF TickerGate(Gov, loc[t].ticker)
       THEN Return(t, FALSE, TickerReason(loc[t].ticker))
       ELSE /\ Goto(t, "refill_now")
            /\ loc' = [loc EXCEPT
                 ![t].ticker_usage = state.tickers[loc[t].ticker]]
    /\ UNCHANGED <<state, tokens, last_token_update, file, grants_issued>>
    /\ UNCHANGED seq

\* _refill_tokens: now, elapsed and refill are computed.
CRefillNow(t) ==
    /\ pc[t] = "refill_now"
    /\ Goto(t, "refill_load")
    /\ loc' = [loc EXCEPT ![t].now = clock,
                          ![t].refill = (clock - last_token_update) * RPM_LIMIT]
    /\ UNCHANGED <<state, tokens, last_token_update, file, grants_issued>>
    /\ UNCHANGED seq

\* _refill_tokens: min(self.BURST_LIMIT, self.tokens + refill) is evaluated.
CRefillLoad(t) ==
    /\ pc[t] = "refill_load"
    /\ Goto(t, "refill_store")
    /\ loc' = [loc EXCEPT ![t].tmp = Min(BURST_LIMIT * TOKEN,
                                         tokens + loc[t].refill)]
    /\ UNCHANGED <<state, tokens, last_token_update, file, grants_issued>>
    /\ UNCHANGED seq

\* _refill_tokens: self.tokens is assigned.
CRefillStore(t) ==
    /\ pc[t] = "refill_store"
    /\ Goto(t, "refill_stamp")
    /\ tokens' = loc[t].tmp
    /\ UNCHANGED <<state, last_token_update, file, grants_issued, loc>>
    /\ UNCHANGED seq

\* _refill_tokens: self.last_token_update = now
CRefillStamp(t) ==
    /\ pc[t] = "refill_stamp"
    /\ Goto(t, "token_check")
    /\ last_token_update' = loc[t].now
    /\ UNCHANGED <<state, tokens, file, grants_issued, loc>>
    /\ UNCHANGED seq

\* if self.tokens >= 1: ... else: return False, "Rate Limited (RPM)"
CTokenCheck(t) ==
    /\ pc[t] = "token_check"
    /\ IF HasToken(tokens)
       THEN Goto(t, "take_load") /\ UNCHANGED loc
       ELSE Return(t, FALSE, REASON_RPM)
    /\ UNCHANGED <<state, tokens, last_token_update, file, grants_issued>>
    /\ UNCHANGED seq

\* self.tokens -= 1: the balance is read.
CTakeLoad(t) ==
    /\ pc[t] = "take_load"
    /\ Goto(t, "take_store")
    /\ loc' = [loc EXCEPT ![t].tmp = tokens - TOKEN]
    /\ UNCHANGED <<state, tokens, last_token_update, file, grants_issued>>
    /\ UNCHANGED seq

\* self.tokens -= 1: the balance is written.
CTakeStore(t) ==
    /\ pc[t] = "take_store"
    /\ Goto(t, "count_load")
    /\ tokens' = loc[t].tmp
    /\ UNCHANGED <<state, last_token_update, file, grants_issued, loc>>
    /\ UNCHANGED seq

\* self.state["daily_requests"] += 1: the total is read.
CCountLoad(t) ==
    /\ pc[t] = "count_load"
    /\ Goto(t, "count_store")
    /\ loc' = [loc EXCEPT ![t].tmp = state.daily_requests + 1]
    /\ UNCHANGED <<state, tokens, last_token_update, file, grants_issued>>
    /\ UNCHANGED seq

\* self.state["daily_requests"] += 1: the total is written.
CCountStore(t) ==
    /\ pc[t] = "count_store"
    /\ Goto(t, "ticker_store")
    /\ state' = [state EXCEPT !.daily_requests = loc[t].tmp]
    /\ UNCHANGED <<tokens, last_token_update, file, grants_issued, loc>>
    /\ UNCHANGED seq

\* self.state["tickers"][ticker] = ticker_usage + 1
CTickerStore(t) ==
    /\ pc[t] = "ticker_store"
    /\ Goto(t, "save")
    /\ state' = [state EXCEPT !.tickers[loc[t].ticker] = loc[t].ticker_usage + 1]
    /\ UNCHANGED <<tokens, last_token_update, file, grants_issued, loc>>
    /\ UNCHANGED seq

\* self._save_state(); return True, "OK"
CSave(t) ==
    /\ pc[t] = "save"
    /\ \E w \in WriteOutcomes : file' = SaveState(state, file, w)
    /\ Return(t, TRUE, REASON_OK)
    /\ grants_issued' = grants_issued + 1
    /\ UNCHANGED <<state, tokens, last_token_update>>
    /\ UNCHANGED seq

\* The Governor after n calls of allow_request(k) made one after the other
\* at clock reading now, every write going through.
RECURSIVE AfterCalls(_, _, _, _)
AfterCalls(g, k, now, n) ==
    IF n = 0 THEN g
    ELSE AfterCalls(allow_request(g, k, now, "written").gov, k, now, n - 1)

\* The threads start on a Governor that a single caller has used before:
\* any number of calls up to the burst, from any start-up.
InitConc ==
    /\ InitRest
    /\ \E f \in StartFiles, k \in Keys, n \in 0..BURST_LIMIT :
         InitGov(AfterCalls(InitState(f, 1, 0), k, 0, n))

NextConc ==
    \E t \in Threads :
       \/ \E k \in Keys : CCall(t, k)
       \/ CDailyGate(t)
       \/ CTickerGate(t)
       \/ CRefillNow(t)
       \/ CRefillLoad(t)
       \/ CRefillStore(t)
       \/ CRefillStamp(t)
       \/ CTokenCheck(t)
       \/ CTakeLoad(t)
       \/ CTakeStore(t)
       \/ CCountLoad(t)
       \/ CCountStore(t)
       \/ CTickerStore(t)
       \/ CSave(t)

SpecConc == InitConc /\ [][NextConc]_vars

\* ------------------------------------------------------- the rolling window
\* An observer opens one window at some clock reading and counts the grants
\* whose call time lies within SECONDS_PER_MINUTE seconds of it.
InWindow == win_start >= 0 /\ clock <= win_start + SECONDS_PER_MINUTE

WOpen ==
    /\ win_start = -1
    /\ win_start' = clock
    /\ win_grants' = 0
    /\ UNCHANGED <<state, tokens, last_token_update, file, clock, today,
                   restarts, grants_issued, http_issued, last, boot, pc, loc,
                   store, report, ohlcv, ledger>>

WAllow(k) ==
    /\ DoAllow(k, "written")
    /\ win_grants' = win_grants + (IF InWindow /\ last'.granted THEN 1 ELSE 0)
    /\ UNCHANGED <<boot, pc, loc, win_start, store, report, ohlcv, ledger>>

WTick ==
    /\ clock + WindowStep <= MaxWindowClock
    /\ clock' = clock + WindowStep
    /\ UNCHANGED <<state, tokens, last_token_update, file, today, restarts,
                   grants_issued, http_issued, last>>
    /\ UNCHANGED aux

InitWindow ==
    /\ InitRest
    /\ InitGov(InitState(NoFile, 1, 0))

NextWindow ==
    \/ \E k \in WindowKeys : WAllow(k)
    \/ WOpen
    \/ WTick

SpecWindow == InitWindow /\ [][NextWindow]_vars

\* One process on one day: the Governor and its callers.
Next ==
    \/ \E k \in Keys : AllowRequest(k)
    \/ GetStatus
    \/ Tick

Spec == Init /\ [][Next]_vars

\* The Governor across midnights and process restarts.
NextDays ==
    \/ \E k \in Keys : AllowRequest(k)
    \/ NextDay
    \/ Restart

SpecDay == Init /\ [][NextDays]_vars

\* The pipeline's governed fetch next to direct callers of the Governor, all
\* at one clock reading.
NextPipe ==
    \/ \E k \in Keys : FetchRange(k)
    \/ \E k \in Keys : AllowRequest(k)

SpecPipe == Init /\ [][NextPipe]_vars

\* ------------------------------------------------------- the reconciliation
\* Symbols run() is called for.
RunKeys == {"AMZN"}

\* finazon_key: none, or a key.
Credentials == {"", "fz-key"}

\* The business days before today that run() looks back on.
PastDays(days) == {d \in (Today - days)..(Today - 1) : IsBusinessDay(d)}

StoreDays == PastDays(WindowDays)

\* The row save_v2 leaves for a bar of day d fetched from the upstream.
StoredRow(k, d, bar) ==
    [symbol |-> k, interval |-> "1d", timestamp |-> Midnight(d),
     source |-> "finazon", adjustment |-> "raw", open |-> bar.Open,
     high |-> bar.High, low |-> bar.Low, close |-> bar.Close]

\* Stores that earlier fetches can have left: bars of any of the window's
\* business days, yesterday's breaking the OHLC rule or not.
InitStores ==
    {{StoredRow(k, d, IF d \in bad THEN HighBelowBody ELSE GoodBar) :
         d \in days} :
       k \in RunKeys,
       days \in SUBSET StoreDays,
       bad \in {{}, {Today - 1}}}

\* Saved records of today that leave a key of run() no grant.
RunRecords ==
    {r \in SavedRecords :
        /\ r.date = 1
        /\ \A k \in RunKeys : r.tickers[k] = TICKER_LIMIT
        /\ \A k \in Keys \ RunKeys : r.tickers[k] = 0}

\* Governors run() can meet: fresh, used up to the burst, near a ceiling.
RunGovs ==
    {AfterCalls(InitState(NoFile, 1, 0), k, 0, n) :
        k \in RunKeys, n \in {0, BURST_LIMIT - 1, BURST_LIMIT}}
    \cup {InitState(Saved(r), 1, 0) : r \in RunRecords}

InitRun ==
    /\ InitCallers
    /\ store \in InitStores
    /\ \E g \in RunGovs : InitGov(g)

\* How many of the longest window's past business days a store holds at
\* start: every fifth count, and the counts next to three fifths and to all.
YearHeld ==
    LET all == Cardinality(PastDays(YearDays))
    IN {n \in 0..all :
          (n % 5 = 0) \/ (n > all - 3)
            \/ (5 * n >= 3 * all - 10 /\ 5 * n <= 3 * all + 10)}

\* Stores that hold good bars of the first n business days of the longest
\* window and of none after them.
YearStores ==
    {{StoredRow(k, d, GoodBar) :
         d \in {x \in PastDays(YearDays) :
                  Cardinality({y \in PastDays(YearDays) : y < x}) < n}} :
       k \in RunKeys, n \in YearHeld}

InitYear ==
    /\ InitCallers
    /\ store \in YearStores
    /\ \E g \in RunGovs : InitGov(g)

\* The calls of gov.allow_request that granted, and the upstream requests
\* sent, among the attempts of one run().
GrantsAmong(attempts) ==
    Cardinality({i \in 1..Len(attempts) : attempts[i].allowed})

SentAmong(attempts) ==
    Cardinality({i \in 1..Len(attempts) : attempts[i].http})

\* A caller runs chart_engine.run(k, "1d", period, key) once, at
\* midnight or at the day's last clock reading.
Run(k, period) ==
    /\ ~report.ran
    /\ \E key \in Credentials, has_mcal \in BOOLEAN,
          tod \in {0, TicksPerDay - 1} :
         \E dry \in {run(Gov, store, k, "1d", period, key, has_mcal, tod,
                          clock, "written", <<>>).report.attempts} :
         LET sent == {i \in 1..Len(dry) : dry[i].http}
         IN \E w \in (IF sent = {} THEN {"written"} ELSE WriteOutcomes),
               rs \in {f \in [1..Len(dry) -> RunResponses] :
                         \A i \in 1..Len(dry) : i \notin sent => f[i] = "empty"} :
              \E r \in {run(Gov, store, k, "1d", period, key, has_mcal, tod,
                           clock, w, rs)} :
              LET a == r.report.attempts
              IN /\ SetGov(r.gov)
                 /\ store' = r.store
                 /\ report' = r.report
                 /\ grants_issued' = grants_issued + GrantsAmong(a)
                 /\ http_issued' = http_issued + SentAmong(a)
                 /\ last' = [NoOp EXCEPT !.op = "run", !.ticker = k]
                 /\ UNCHANGED <<clock, today, restarts, boot, pc, loc,
                                win_start, win_grants, ohlcv, ledger>>

\* run() over the shorter windows, on any store.
NextRun == \E k \in RunKeys, period \in {"1mo", "3mo"} : Run(k, period)

SpecRun == InitRun /\ [][NextRun]_vars

\* ------------------------------------------- _smart_fill while time passes
\* A Strategy B that fetches the longest group only.
smart_fill_first_group(g, st, ticker, coverage, missing_dates, start_ts, end_ts, now, later, w, rs) ==
    IF IsRebuild(coverage) \/ missing_dates = {}
    THEN smart_fill(g, st, ticker, coverage, missing_dates, start_ts, end_ts,
                    now, w, rs)
    ELSE FetchGroup(NoFill(g, st), ticker,
                    TopGroups(SortGroups(GroupRuns(missing_dates, <<>>),
                                         <<>>))[1],
                    now, w, rs)

\* The second fetch of Strategy B, when there is a second group: the clock
\* reads later by then.
FetchSecond(first, ticker, groups, later, w, rs) ==
    IF Len(groups) = 1 THEN first
    ELSE FetchGroup(first, ticker, groups[2], later, w, rs)

\* The loop of Strategy B over the groups.
FetchTop(g, st, ticker, groups, now, later, w, rs) ==
    FetchSecond(FetchGroup(NoFill(g, st), ticker, groups[1], now, w, rs),
                ticker, groups, later, w, rs)

\* _smart_fill with the clock reading now at its first fetch and later at
\* its second.
smart_fill_at(g, st, ticker, coverage, missing_dates, start_ts, end_ts, now, later, w, rs) ==
    IF IsRebuild(coverage) \/ missing_dates = {}
    THEN smart_fill(g, st, ticker, coverage, missing_dates, start_ts, end_ts,
                    now, w, rs)
    ELSE FetchTop(g, st, ticker,
                  TopGroups(SortGroups(GroupRuns(missing_dates, <<>>), <<>>)),
                  now, later, w, rs)

\* The seconds that may pass between two fetches of one call, and what the
\* upstream answers them.
Delays == {0, 1}
RoundResponses == {"rows", "empty", "status_429"}

\* _smart_fill as run() calls it after its query, the clock moving on by dt
\* during the call.
SmartFill(k) ==
    /\ ~report.ran
    /\ \E has_mcal \in BOOLEAN, tod \in {0, TicksPerDay - 1}, dt \in Delays,
          w \in WriteOutcomes, rs \in [1..2 -> RoundResponses] :
         \E q \in {Query(store, k, "1d", "1mo", has_mcal, tod)} :
           /\ NeedsFill(q.gaps.coverage)
           /\ \E r \in {smart_fill_at(Gov, store, k, q.gaps.coverage,
                                      q.gaps.missing_dates, q.start_ts,
                                      q.end_ts, clock, clock + dt, w, rs)} :
                /\ SetGov(r.gov)
                /\ store' = r.store
                /\ report' = [NoReport EXCEPT !.ran = TRUE, !.ticker = k,
                                              !.period = "1mo",
                                              !.finazon_key = "fz-key",
                                              !.has_mcal = has_mcal,
                                              !.start_ts = q.start_ts,
                                              !.end_ts = q.end_ts,
                                              !.first = q.gaps,
                                              !.attempts = r.attempts]
                /\ grants_issued' = grants_issued + GrantsAmong(r.attempts)
                /\ http_issued' = http_issued + SentAmong(r.attempts)
                /\ clock' = clock + dt
                /\ last' = [NoOp EXCEPT !.op = "smart_fill", !.ticker = k]
                /\ UNCHANGED <<today, restarts, boot, pc, loc, win_start,
                               win_grants, ohlcv, ledger>>

\* Stores whose bars lie in the window of "1mo".
RoundStores ==
    {st \in InitStores :
        \A r \in st : r.timestamp >= Midnight(Today - ShortDays)}

InitRound ==
    /\ InitCallers
    /\ store \in RoundStores
    /\ \E g \in RunGovs : InitGov(g)

\* Time passing before the call.
Wait == ~report.ran /\ Tick

NextRound ==
    \/ Wait
    \/ \E k \in RunKeys : SmartFill(k)

SpecRound == InitRound /\ [][NextRound]_vars

\* run() over the longest window, on stores that hold its first days.
NextYear == \E k \in RunKeys : Run(k, "1y")

SpecYear == InitYear /\ [][NextYear]_vars

\* ------------------------------------------------------ the store changing
\* Steps 1 to 4 of run() on store st: the window, the query, the OHLC
\* validation and the gap calculation.
GapsAt(st, k, period, has_mcal, tod) ==
    Query(st, k, "1d", period, has_mcal, tod).gaps

\* A fetch of some reconciliation saves one bar of day d, good or not.
SaveBar(k, d, bar) ==
    /\ store' = save_v2(store, {Frame(k, Midnight(d), "upstream", bar)},
                        "finazon")
    /\ last' = [NoOp EXCEPT !.op = "save_v2", !.ticker = k,
                            !.outcome = IF bar \in BadBars THEN "invalid"
                                        ELSE "valid"]
    /\ UNCHANGED <<state, tokens, last_token_update, file, clock, today,
                   restarts, grants_issued, http_issued, boot, pc, loc,
                   win_start, win_grants, report, ohlcv, ledger>>

InitGaps ==
    /\ InitRest
    /\ InitGov(InitState(NoFile, 1, 0))

NextGaps ==
    \E k \in RunKeys, d \in PastDays(ShortDays) \cup {Today},
       bar \in {GoodBar, HighBelowBody} : SaveBar(k, d, bar)

SpecGaps == InitGaps /\ [][NextGaps]_vars

\* ------------------------------------------------- writers of the store
\* Every save_v2 opens a connection of its own, builds its records, runs
\* the INSERT OR REPLACE statements in one transaction and commits.  The
\* database lets one connection write at a time: while a transaction is
\* open, the executemany of another connection waits, and raises "database
\* is locked" when its wait runs out.
WrittenDays == {Today - 2, Today - 1}

\* A frame of one ticker, one bar per day.
Batch(k, days, bar) == {Frame(k, Midnight(d), "upstream", bar) : d \in days}

\* What the writers save: frames of the upstream, and the frame save_data
\* hands over as "legacy_bridge".
Batches ==
    {[df |-> Batch(k, days, bar), source |-> "finazon"] :
        k \in Keys, days \in {{Today - 2}, WrittenDays},
        bar \in {GoodBar, HighBelowBody}}
    \cup {[df |-> Batch("AMZN", {Today - 2}, bar), source |-> "legacy_bridge"] :
            bar \in {GoodBar, HighBelowBody}}

\* What a commit did to the rows of its keys.
CommitOutcome(st, records) ==
    IF records \subseteq st THEN "same"
    ELSE IF \E n \in records, r \in st : RowKey(n) = RowKey(r)
    THEN "replaced"
    ELSE "inserted"

StoreStep(t, label, locals) ==
    /\ pc' = [pc EXCEPT ![t] = label]
    /\ loc' = [loc EXCEPT ![t] = locals]
    /\ UNCHANGED <<state, tokens, last_token_update, file, clock, today,
                   restarts, grants_issued, http_issued, boot, win_start,
                   win_grants, report, ohlcv, ledger>>

\* save_v2 up to the executemany: the connection and the records.
WBegin(t, b) ==
    /\ pc[t] = "idle"
    /\ StoreStep(t, "built", [records |-> Records(b.df, b.source)])
    /\ UNCHANGED <<store, last>>

\* executemany: the transaction opens and holds the write lock.
WExecute(t) ==
    /\ pc[t] = "built"
    /\ \A u \in Threads : pc[u] # "executed"
    /\ StoreStep(t, "executed", loc[t])
    /\ UNCHANGED <<store, last>>

\* executemany that waited in vain: save_v2 raises and nothing is written.
WLocked(t) ==
    /\ pc[t] = "built"
    /\ \E u \in Threads : pc[u] = "executed"
    /\ StoreStep(t, "idle", NoLocals)
    /\ store' = store
    /\ last' = [NoOp EXCEPT !.op = "save_v2", !.ticker = t,
                            !.outcome = "locked"]

\* conn.commit()
WCommit(t) ==
    /\ pc[t] = "executed"
    /\ StoreStep(t, "idle", NoLocals)
    /\ store' = Upsert(store, loc[t].records)
    /\ last' = [NoOp EXCEPT !.op = "save_v2", !.ticker = t, !.saved = TRUE,
                            !.outcome = CommitOutcome(store, loc[t].records)]

InitStore ==
    /\ InitRest
    /\ InitGov(InitState(NoFile, 1, 0))

NextStore ==
    \E t \in Threads :
        \/ \E b \in Batches : WBegin(t, b)
        \/ WExecute(t)
        \/ WLocked(t)
        \/ WCommit(t)

SpecStore == InitStore /\ [][NextStore]_vars

\* ------------------------------------------------- readers of the store
\* save_v2, from the connection to the commit, in a process that does one
\* thing at a time.
Save(b) ==
    /\ \A t \in Threads : pc[t] = "idle"
    /\ store' = save_v2(store, b.df, b.source)
    /\ last' = [NoOp EXCEPT !.op = "save_v2", !.saved = TRUE,
                            !.outcome = CommitOutcome(store,
                                                      Records(b.df, b.source))]
    /\ UNCHANGED <<state, tokens, last_token_update, file, clock, today,
                   restarts, grants_issued, http_issued, boot, pc, loc,
                   win_start, win_grants, report, ohlcv, ledger>>

\* The symbols, intervals and instants asked for: a symbol nobody saved, an
\* interval save_v2 never writes, and ranges that end on, before and after
\* the midnights of the bars.
QuerySymbols == Keys \cup {"MSFT"}
QueryIntervals == {"1d", "1h"}
QueryTimes == (Midnight(Today - 2) - 1)..(Midnight(Today - 1) + 1)

\* get_v2 called by reader t: the call and the frame it returned are the
\* reader's locals.
GetV2(t, symbol, interval, start_ts, end_ts) ==
    /\ pc[t] = "idle"
    /\ pc' = [pc EXCEPT ![t] = "read"]
    /\ \E rows \in get_v2_rows(store, symbol, interval, start_ts, end_ts) :
         /\ loc' = [loc EXCEPT ![t] = [symbol |-> symbol,
                                       interval |-> interval,
                                       start_ts |-> start_ts,
                                       end_ts |-> end_ts, rows |-> rows]]
         /\ last' = [NoOp EXCEPT !.op = "get_v2", !.ticker = symbol,
                                 !.outcome = IF rows = <<>> THEN "empty"
                                             ELSE "rows"]
    /\ UNCHANGED <<state, tokens, last_token_update, file, clock, today,
                   restarts, grants_issued, http_issued, boot, win_start,
                   win_grants, store, report, ohlcv, ledger>>

\* The reader is done with the frame.
Drop(t) ==
    /\ pc[t] = "read"
    /\ StoreStep(t, "idle", NoLocals)
    /\ UNCHANGED <<store, last>>

NextQuery ==
    \/ \E b \in Batches : Save(b)
    \/ Drop("t1")
    \/ \E symbol \in QuerySymbols, interval \in QueryIntervals,
          start_ts \in QueryTimes, end_ts \in QueryTimes :
           GetV2("t1", symbol, interval, start_ts, end_ts)

SpecQuery == InitStore /\ [][NextQuery]_vars

\* ---------------------------------------------------- the legacy bridge
\* The primary key of ohlcv.
LegacyKey(r) == <<r.ticker, r.interval, r.timestamp>>

\* save_data: INSERT OR REPLACE into ohlcv, commit, then the same frame,
\* with the ticker as its Ticker column, into ohlcv_v2 as "legacy_bridge".
save_data(v1, st, ticker, interval, df) ==
    LET records == {[ticker |-> ticker, interval |-> interval,
                     timestamp |-> f.Date, open |-> f.Open, high |-> f.High,
                     low |-> f.Low, close |-> f.Close] : f \in df}
    IN [ohlcv |-> {r \in v1 : \A n \in records : LegacyKey(n) # LegacyKey(r)}
                    \cup records,
        store |-> save_v2(st, {[f EXCEPT !.Ticker = ticker] : f \in df},
                          "legacy_bridge")]

SaveData(k, interval, d, bar) ==
    /\ ~report.ran
    /\ \E r \in {save_data(ohlcv, store, k, interval,
                           {Frame("", Midnight(d), "caller", bar)})} :
         /\ ohlcv' = r.ohlcv
         /\ store' = r.store
    /\ last' = [NoOp EXCEPT !.op = "save_data", !.ticker = k, !.saved = TRUE]
    /\ UNCHANGED <<state, tokens, last_token_update, file, clock, today,
                   restarts, grants_issued, http_issued, boot, pc, loc,
                   win_start, win_grants, report, ledger>>

\* A bar an earlier fetch saved.
SaveFetched(k, d, bar) == ~report.ran /\ SaveBar(k, d, bar)

\* Bars saved by earlier fetches and by callers of save_data, then one run().
NextLegacy ==
    \/ \E k \in RunKeys, d \in WrittenDays, bar \in {GoodBar, HighBelowBody} :
           \/ SaveFetched(k, d, bar)
           \/ SaveData(k, "1d", d, bar)
    \/ \E k \in RunKeys : Run(k, "1mo")

SpecLegacy == InitGaps /\ [][NextLegacy]_vars

\* =================================================================== claims
\* The balance allow_request and get_status work with after their refill.
Refilled == RefillTokens(tokens, last_token_update, clock).tokens

Ceiling == BURST_LIMIT * TOKEN

\* ----------------------------------------------------------------------- C1
\* C1: the day's total never exceeds the daily limit, and once it equals the
\* limit every allow_request, for any key and any token balance, returns
\* (False, "Daily Budget Exceeded") and the total stays at the limit.
C1_DailyCeilingHardStop ==
    /\ [](state.daily_requests <= DAILY_LIMIT_APP)
    /\ [][\A k \in Keys :
            (state.daily_requests = DAILY_LIMIT_APP /\ AllowRequest(k))
              => /\ ~last'.granted
                 /\ last'.reason = REASON_DAILY
                 /\ state'.daily_requests = DAILY_LIMIT_APP]_vars

\* C1 witness: the limit was reached by a grant of this process, tokens are
\* left, and the call that followed was turned away by the daily gate.
C1_Witness ==
    /\ state.daily_requests = DAILY_LIMIT_APP
    /\ grants_issued >= 1
    /\ tokens >= TOKEN
    /\ last.op = "allow" /\ ~last.granted /\ last.reason = REASON_DAILY

\* ----------------------------------------------------------------------- C2
\* The threads whose call has returned (True, "OK").
Granted == {t \in Threads : pc[t] = "done" /\ loc[t].granted}

GrantedFor(k) == {t \in Granted : loc[t].ticker = k}

\* The grants the Governor the threads found could give at that clock
\* reading: its whole tokens after the refill, what is left of the day's
\* budget, and for a key what is left of its cap.
TokenRoom == Min(Ceiling, boot.tokens) \div TOKEN

DailyRoom ==
    IF boot.state.daily_requests >= DAILY_LIMIT_APP THEN 0
    ELSE DAILY_LIMIT_APP - boot.state.daily_requests

KeyRoom(k) ==
    IF boot.state.tickers[k] >= TICKER_LIMIT THEN 0
    ELSE TICKER_LIMIT - boot.state.tickers[k]

\* C2: for any interleaving of concurrent allow_request calls the grants
\* never exceed what the token balance, the daily limit and the per-key
\* limit allow (with one token left, at most one caller is granted), the
\* balance never goes below 0, and once all calls have returned every grant
\* is counted in daily_requests and in its key's counter.
C2_AtomicAdmission ==
    /\ Cardinality(Granted) <= TokenRoom
    /\ Cardinality(Granted) <= DailyRoom
    /\ \A k \in Keys : Cardinality(GrantedFor(k)) <= KeyRoom(k)
    /\ tokens >= 0
    /\ (\A t \in Threads : pc[t] = "done")
         => /\ state.daily_requests
                 = boot.state.daily_requests + Cardinality(Granted)
            /\ \A k \in Keys :
                 state.tickers[k]
                   = boot.state.tickers[k] + Cardinality(GrantedFor(k))

\* ----------------------------------------------------------------------- C3
\* C3: the grants whose call times fall in one window of 60 seconds never
\* exceed burst_capacity + ceil(60 * rate_per_minute / 60) = 24.
C3_RollingWindowBound ==
    win_grants <= BURST_LIMIT
                    + (SECONDS_PER_MINUTE * RPM_LIMIT + SECONDS_PER_MINUTE - 1)
                        \div SECONDS_PER_MINUTE

\* C3 witness: a window that opened on a full bucket and in which every
\* token of the burst and of the refill was granted.
C3_Witness ==
    /\ win_start >= 0
    /\ clock = win_start + SECONDS_PER_MINUTE
    /\ win_grants = BURST_LIMIT + RPM_LIMIT
    /\ last.op = "allow" /\ last.granted

\* ----------------------------------------------------------------------- C4
\* C4: in every reachable state, from construction onward, the token balance
\* lies between 0 and the burst capacity.
C4_TokenBalanceBounds == 0 <= tokens /\ tokens <= Ceiling

\* ----------------------------------------------------------------------- C5
\* C5 as stated: no key is granted more than 30 times, and a call for a key
\* that already has 30 grants is rejected with the ticker-limit reason.
C5_PerKeyCeilingAsStated ==
    /\ [](\A k \in Keys : state.tickers[k] <= TICKER_LIMIT)
    /\ [][\A k \in Keys :
            (state.tickers[k] >= TICKER_LIMIT /\ AllowRequest(k))
              => ~last'.granted /\ last'.reason = TickerReason(k)]_vars

\* C5 amended: no key is granted more than 30 times; a call for a key that
\* already has 30 grants is rejected and changes nothing, with the
\* ticker-limit reason unless the daily limit is reached as well, in which
\* case the reason is the daily one; and a call for a key under its cap is
\* granted whenever the daily total is under its limit and a token is
\* there, whatever the other keys' counts.
C5_PerKeyCeiling ==
    /\ [](\A k \in Keys : state.tickers[k] <= TICKER_LIMIT)
    /\ [][\A k \in Keys :
            AllowRequest(k) =>
              /\ state.tickers[k] >= TICKER_LIMIT =>
                   /\ ~last'.granted
                   /\ last'.reason = IF state.daily_requests >= DAILY_LIMIT_APP
                                     THEN REASON_DAILY ELSE TickerReason(k)
                   /\ state' = state /\ tokens' = tokens
              /\ (/\ state.tickers[k] < TICKER_LIMIT
                  /\ state.daily_requests < DAILY_LIMIT_APP
                  /\ Refilled >= TOKEN) => last'.granted]_vars

\* C5 witness: a key has its 30 grants and the last call, for another key,
\* was granted.
C5_Witness ==
    \E k \in Keys :
      /\ state.tickers[k] = TICKER_LIMIT
      /\ last.op = "allow" /\ last.granted /\ last.ticker # k
      /\ state.tickers[last.ticker] < TICKER_LIMIT

\* ----------------------------------------------------------------------- C6
\* What every grant does to the counters and the balance.
GrantEffect(k) ==
    /\ state'.daily_requests = state.daily_requests + 1
    /\ state'.tickers[k] = state.tickers[k] + 1
    /\ \A j \in Keys \ {k} : state'.tickers[j] = state.tickers[j]
    /\ state'.date = state.date
    /\ tokens' = Refilled - TOKEN

\* C6 as stated: every granted allow_request(k) adds 1 to the total and to
\* k's counter alone, takes one token off the refilled balance, and leaves
\* the durable record equal to the in-memory state.
C6_GrantEffectAsStated ==
    [][\A k \in Keys :
         (AllowRequest(k) /\ last'.granted)
           => GrantEffect(k) /\ file' = Saved(state')]_vars

\* C6 amended: every granted allow_request(k) adds 1 to the total and to k's
\* counter alone and takes one token off the refilled balance; it attempts
\* the durable write, and when that write does not fail the durable record
\* equals the in-memory state on return.
C6_GrantEffect ==
    [][\A k \in Keys :
         (AllowRequest(k) /\ last'.granted)
           => /\ GrantEffect(k)
              /\ last'.saved
              /\ last'.write = "written" => file' = Saved(state')]_vars

\* C6 witness: a grant whose write went through, after an earlier grant for
\* the other key.
C6_Witness ==
    /\ last.op = "allow" /\ last.granted /\ last.write = "written"
    /\ file = Saved(state)
    /\ \A k \in Keys : state.tickers[k] >= 1

\* ----------------------------------------------------------------------- C7
\* C7: an allow_request that is not granted leaves the total, every per-key
\* counter, the date and the durable record as they were and writes nothing.
C7_RejectionLeavesAccounting ==
    [][\A k \in Keys :
         (AllowRequest(k) /\ ~last'.granted)
           => /\ state' = state
              /\ file' = file
              /\ ~last'.saved /\ last'.write = "none"]_vars

\* C7 witness: a rate-limit rejection after grants, the record on disk being
\* older than the state in memory.
C7_Witness ==
    /\ last.op = "allow" /\ ~last.granted /\ last.reason = REASON_RPM
    /\ file # Saved(state)
    /\ state.daily_requests >= BURST_LIMIT

\* ----------------------------------------------------------------------- C8
\* C8: when the durable write of an otherwise grantable allow_request fails,
\* the call still returns (True, "OK") and the total, the key's counter and
\* the balance in memory carry the grant.
C8_WriteFailureKeepsGrant ==
    [][\A k \in Keys :
         (AllowRequest(k) /\ last'.write \in {"open_failed", "dump_failed"})
           => /\ last'.granted /\ last'.reason = REASON_OK
              /\ GrantEffect(k)]_vars

\* C8 witness: a grant stands in memory while the write that went with it
\* left the file without a readable record.
C8_Witness ==
    /\ last.op = "allow" /\ last.granted /\ last.write = "dump_failed"
    /\ file = Unreadable
    /\ state.daily_requests >= 1 /\ state.tickers[last.ticker] >= 1

\* ----------------------------------------------------------------------- C9
\* C9: whenever the wall-clock date is past the date of the governance
\* state, the counters are reset before the next admission decision: after
\* that decision the state carries today's date and no more than the grant
\* just made, and the decision is not a daily or per-key rejection.
C9_DayRolloverReset ==
    [][\A k \in Keys :
         (today > state.date /\ AllowRequest(k))
           => /\ state'.date = today
              /\ state'.daily_requests <= 1
              /\ \A j \in Keys : state'.tickers[j] <= 1
              /\ last'.reason \notin {REASON_DAILY, TickerReason(k)}]_vars

\* ---------------------------------------------------------------------- C10
\* C10: every upstream request of the pipeline comes in the same
\* _fetch_range call as a grant for its symbol; the upstream requests never
\* outnumber the grants; a rejected allow_request is followed by no request.
C10_GovernorGatesUpstream ==
    /\ [](http_issued <= grants_issued)
    /\ [](last.http => last.op = "fetch" /\ last.granted)
    /\ [][http_issued' # http_issued
            => /\ http_issued' = http_issued + 1
               /\ grants_issued' = grants_issued + 1
               /\ last'.op = "fetch" /\ last'.granted /\ last'.http
               /\ state'.tickers[last'.ticker]
                    = state.tickers[last'.ticker] + 1]_vars
    /\ [][\A k \in Keys :
            (FetchRange(k) /\ ~last'.granted)
              => http_issued' = http_issued /\ ~last'.http]_vars

\* C10 witness: the pipeline has sent upstream requests, each after a grant,
\* and its last fetch was blocked by the Governor and sent nothing.
C10_Witness ==
    /\ http_issued >= 1 /\ http_issued < grants_issued
    /\ last.op = "fetch" /\ ~last.granted /\ ~last.http

\* ------------------------------------------------------------ reconciliation
\* A step is one call of run(k, ...).
RunStep(k) == ~report.ran /\ report'.ran /\ report'.ticker = k

\* What the store the call found holds of its window, validated, and the
\* gaps and coverage of that.
Served(k) ==
    Validated(get_v2(store, k, "1d", report'.start_ts, report'.end_ts))

StoreGaps(k) == calculate_gaps(Served(k), report'.expected_dates, Today)

\* The call asked the Governor nothing, sent nothing and wrote nothing.
NoFetchRound ==
    /\ report'.attempts = <<>>
    /\ grants_issued' = grants_issued
    /\ http_issued' = http_issued
    /\ store' = store
    /\ UNCHANGED <<state, tokens, last_token_update, file>>

\* The call returned the bars the store held, and their report.
ReportFromStore(k) ==
    /\ report'.df = Served(k)
    /\ report'.coverage = StoreGaps(k).coverage
    /\ report'.missing_dates = StoreGaps(k).missing_dates
    /\ report'.missing_count = Cardinality(StoreGaps(k).missing_dates)
    /\ report'.expected_days_count = Cardinality(report'.expected_dates)
    /\ report'.source = "DB (Cached)"

\* C11: when the coverage computed from the store is at least 0.99, run()
\* makes no allow_request call, no upstream request and no store write, and
\* returns the stored validated bars, the report computed from them and the
\* source label "DB (Cached)".
C11_SufficiencySkipsFetch ==
    [][\A k \in RunKeys :
         (RunStep(k) /\ ~Below(StoreGaps(k).coverage, 99, 100)) =>
            (NoFetchRound /\ ReportFromStore(k))]_vars

\* A call with a credential found one expected day missing in a hundred and
\* fetched nothing.
C11_Witness ==
    /\ report.ran
    /\ report.finazon_key # ""
    /\ report.expected_days_count = 100
    /\ report.missing_count = 1
    /\ report.attempts = <<>>
    /\ report.source = "DB (Cached)"
    /\ report.df # {}

\* C12: with a credential and coverage below 0.6, run() makes exactly one
\* governed fetch attempt, for the entire window [start_ts, end_ts], and no
\* Gap-Fill attempt; at coverage exactly 0.6 its attempts are Gap-Fill ones.
C12_RebuildClassification ==
    [][\A k \in RunKeys :
         (RunStep(k) /\ report'.finazon_key # "") =>
            LET cov == StoreGaps(k).coverage
                a == report'.attempts
            IN /\ Below(cov, 6, 10) =>
                    /\ Len(a) = 1
                    /\ a[1].label = "Rebuild"
                    /\ a[1].start_ts = report'.start_ts
                    /\ a[1].end_ts = report'.end_ts
                    /\ grants_issued' - grants_issued
                          = (IF a[1].allowed THEN 1 ELSE 0)
               /\ cov.num * 10 = 6 * cov.den =>
                    /\ Len(a) >= 1
                    /\ \A i \in 1..Len(a) :
                          /\ a[i].label = "GapFill"
                          /\ <<a[i].start_ts, a[i].end_ts>>
                                # <<report'.start_ts, report'.end_ts>>]_vars

\* A call with a credential found 55 days of 100 covered and made one
\* granted Rebuild request for its whole window.
C12_Witness ==
    /\ report.ran
    /\ report.finazon_key # ""
    /\ report.expected_days_count = 100
    /\ report.first.coverage = Ratio(55, 100)
    /\ Len(report.attempts) = 1
    /\ report.attempts[1].label = "Rebuild"
    /\ report.attempts[1].http

\* A call with a credential found coverage at exactly 0.6.
C12_AtLowWater ==
    /\ report.ran
    /\ report.finazon_key # ""
    /\ report.first.coverage.num * 10 = 6 * report.first.coverage.den
    /\ report.first.coverage.den > 1
    /\ Len(report.attempts) = 2

\* C13: for any store and any fragmentation of the missing dates one run()
\* makes at most 2 allow_request calls and at most 2 upstream requests, at
\* most 1 of each when it rebuilds, and asks for no window or run twice, a
\* fetch that failed or brought 0 rows included.
C13_BoundedUpstreamWork ==
    report.ran =>
        LET a == report.attempts
        IN /\ Len(a) <= 2
           /\ grants_issued <= 2
           /\ http_issued <= 2
           /\ SentAmong(a) = http_issued
           /\ (\E i \in 1..Len(a) : a[i].label = "Rebuild") => Len(a) = 1
           /\ \A i, j \in 1..Len(a) :
                 i < j => \/ a[i].end_ts < a[j].start_ts
                          \/ a[j].end_ts < a[i].start_ts

\* A call found the missing dates in three runs or more, sent a request for
\* one that brought nothing, then one for another, and stopped.
C13_Witness ==
    /\ report.ran
    /\ Len(GroupRuns(report.first.missing_dates, <<>>)) >= 3
    /\ Len(report.attempts) = 2
    /\ report.attempts[1].http
    /\ report.attempts[1].count = 0
    /\ report.attempts[2].http

\* The rows a call loaded from the store, in its first read and its re-read,
\* that break the OHLC rule.
LoadedInvalid ==
    {f \in report.loaded \cup report.reloaded :
        f.Low > Min(f.Open, f.Close) \/ f.High < Max(f.Open, f.Close)}

\* C14: every bar run() returns has low <= min(open, close) and high >=
\* max(open, close), served straight from the store or re-read after a
\* fetch, and every loaded bar that breaks the rule is left out of the
\* result and counted once in invalid_ohlc_count.
C14_InvalidBarsDroppedAndCounted ==
    report.ran =>
        /\ \A f \in report.df :
              f.Low <= Min(f.Open, f.Close) /\ f.High >= Max(f.Open, f.Close)
        /\ report.df \cap LoadedInvalid = {}
        /\ report.invalid_ohlc_count = Cardinality(LoadedInvalid)

\* Expected calendars of the last days of the window, the empty one among
\* them.
LateCalendars == SUBSET ((Today - 2)..Today)

\* coverage is 1 - |missing| / |expected|, or 0 when nothing is expected.
CoverageIs(c, missing, expected) ==
    /\ missing \subseteq expected
    /\ c.den > 0
    /\ IF Cardinality(expected) > 0
       THEN c.num * Cardinality(expected)
              = (Cardinality(expected) - Cardinality(missing)) * c.den
       ELSE c.num = 0
    /\ 0 <= c.num
    /\ c.num <= c.den

\* C15: the reported coverage is 1 - missing_count / expected_days_count,
\* missing_count being the size of the reported missing-date set, and 0 when
\* no day is expected; so it lies between 0 and 1, and the missing dates
\* are expected ones.  The same holds of _calculate_gaps on the bars of any
\* store and any expected calendar.
C15_CoverageFormula ==
    /\ report.ran =>
          /\ report.expected_days_count = Cardinality(report.expected_dates)
          /\ report.missing_count = Cardinality(report.missing_dates)
          /\ CoverageIs(report.coverage, report.missing_dates,
                        report.expected_dates)
    /\ \A k \in RunKeys, expected \in LateCalendars :
          LET g == calculate_gaps(
                       Validated(get_v2(store, k, "1d", 0, Midnight(Today))),
                       expected, Today)
          IN CoverageIs(g.coverage, g.missing_dates, expected)

\* A call refilled part of what was missing and reported a coverage
\* strictly between 0 and 1; of an empty calendar its bars cover 0.
C15_Witness ==
    /\ report.ran
    /\ report.reread
    /\ report.missing_count > 0
    /\ report.missing_count < report.expected_days_count
    /\ report.coverage.num * report.expected_days_count
         = (report.expected_days_count - report.missing_count)
             * report.coverage.den
    /\ report.df # {}
    /\ calculate_gaps(report.df, {}, Today).coverage.num = 0

\* c1 <= c2, for coverages.
AtMost(c1, c2) == c1.num * c2.den <= c2.num * c1.den

\* The validated bars of a window of store st.
ValidBars(st, k, period, tod) ==
    Validated(get_v2(st, k, "1d",
                     Midnight(Today) + tod - Midnight(days_map(period)),
                     Midnight(Today) + tod))

\* C16: for a fixed window and expected calendar, a validated bar set that
\* gains bars never has a lower coverage, and one that loses bars, removed
\* or invalidated, never a higher one, from any bar set, the empty one
\* included.
C16_CoverageMonotone ==
    [][\A k \in RunKeys, period \in {"1mo", "3mo"}, has_mcal \in BOOLEAN,
          tod \in {0, TicksPerDay - 1} :
         LET before == GapsAt(store, k, period, has_mcal, tod).coverage
             after == GapsAt(store', k, period, has_mcal, tod).coverage
         IN /\ ValidBars(store, k, period, tod)
                  \subseteq ValidBars(store', k, period, tod)
               => AtMost(before, after)
            /\ ValidBars(store', k, period, tod)
                  \subseteq ValidBars(store, k, period, tod)
               => AtMost(after, before)]_vars

\* The first bar of a store has just been saved and the coverage of the
\* window is above 0.
C16_Witness ==
    /\ last.op = "save_v2"
    /\ last.outcome = "valid"
    /\ Cardinality(store) = 1
    /\ \E k \in RunKeys : GapsAt(store, k, "3mo", TRUE, 0).coverage.num > 0

\* C17: the reliability of the report is false exactly when the expected
\* dates come from the business-day fallback instead of the exchange
\* calendar, with or without a fetch round and recomputation.
C17_ReliabilityFlag ==
    report.ran =>
        LET days == DateOf(report.start_ts)..DateOf(report.end_ts)
        IN /\ report.reliability = report.has_mcal
           /\ report.reliability =>
                 report.expected_dates
                   = {d \in days : (d % 7) \in 1..5 /\ d \notin Holidays}
           /\ ~report.reliability =>
                 report.expected_dates = {d \in days : (d % 7) \in 1..5}

\* A call without the exchange calendar refilled and recomputed, and its
\* report, which expects the holiday, says unreliable.
C17_Witness ==
    /\ report.ran
    /\ ~report.has_mcal
    /\ ~report.reliability
    /\ report.reread
    /\ Holidays \subseteq report.expected_dates

\* C18: without a credential run() never calls allow_request, sends no
\* upstream request and writes nothing to the store, whatever the coverage;
\* on an empty store it returns no bars, coverage 0, missing_count equal to
\* the expected count and the label "DB (Cached)".
C18_NoCredentialNoFetch ==
    [][\A k \in RunKeys :
         (RunStep(k) /\ report'.finazon_key = "") =>
            /\ NoFetchRound
            /\ report'.source = "DB (Cached)"
            /\ (store = {}) =>
                   /\ report'.df = {}
                   /\ report'.coverage.num = 0
                   /\ report'.missing_count = report'.expected_days_count]_vars

\* A call without a credential met an empty store and reported every
\* expected day missing.
C18_Witness ==
    /\ report.ran
    /\ report.finazon_key = ""
    /\ store = {}
    /\ report.df = {}
    /\ report.coverage.num = 0
    /\ report.expected_days_count > 0
    /\ report.missing_count = report.expected_days_count
    /\ grants_issued = 0
    /\ http_issued = 0

\* C19: a granted fetch that ends in a status other than 200, an empty data
\* list, a timeout or a malformed payload brings 0 rows and writes nothing;
\* the runs still scheduled are attempted all the same, and with nothing
\* fetched run() returns the report of what the store already held.
C19_UpstreamFailureIsZeroRows ==
    [][\A k \in RunKeys :
         RunStep(k) =>
            LET a == report'.attempts
                failed(i) ==
                    /\ a[i].http
                    /\ a[i].outcome \in {"error_status", "status_429", "empty",
                                         "exception", "malformed"}
            IN /\ \A i \in 1..Len(a) :
                     failed(i) => (a[i].count = 0 /\ ~a[i].wrote)
               /\ ~report'.raised
               /\ (Len(a) >= 1 /\ a[1].label = "GapFill") =>
                     Len(a) = Min(2, Len(GroupRuns(StoreGaps(k).missing_dates,
                                                   <<>>)))
               /\ (\A i \in 1..Len(a) : a[i].http => failed(i)) =>
                     (store' = store /\ ReportFromStore(k))]_vars

\* A call's first request timed out and its second brought rows.
C19_Witness ==
    /\ report.ran
    /\ Len(report.attempts) = 2
    /\ report.attempts[1].http
    /\ report.attempts[1].outcome = "exception"
    /\ report.attempts[1].count = 0
    /\ report.attempts[2].http
    /\ report.attempts[2].count > 0
    /\ report.reread

\* C20: whatever the Governor answers, whatever the upstream request ends
\* in, with invalid rows in the store, without the exchange calendar and
\* with the Governor's writes failing, run() returns its report: bars,
\* coverage, missing_count, expected_days_count, invalid_ohlc_count, source
\* and reliability.
C20_RunNeverRaises ==
    report.ran =>
        /\ ~report.raised
        /\ report.coverage.den > 0
        /\ report.missing_count \in Nat
        /\ report.expected_days_count \in Nat
        /\ report.invalid_ohlc_count \in Nat
        /\ report.source # ""
        /\ report.reliability \in BOOLEAN
        /\ \A f \in report.df : f.Ticker = report.ticker

\* A call without the exchange calendar loaded an invalid row, had its
\* first request granted with the Governor's write failing and the request
\* timing out, and its second request rejected.
C20_Witness ==
    /\ report.ran
    /\ ~report.has_mcal
    /\ report.invalid_ohlc_count > 0
    /\ Len(report.attempts) = 2
    /\ report.attempts[1].http
    /\ report.attempts[1].write # "written"
    /\ report.attempts[1].outcome = "exception"
    /\ ~report.attempts[2].allowed
    /\ report.source = "DB (Cached)"

\* The Governor with its bucket empty at clock reading now.
Drained(g, now) == [g EXCEPT !.tokens = 0, !.last_token_update = now]

\* Attempt i of a call was a granted Gap-Fill fetch answered 429.
Got429(a, i) ==
    /\ a[i].label = "GapFill"
    /\ a[i].http
    /\ a[i].outcome = "status_429"

\* C21: a granted Gap-Fill fetch answered 429 counts 0 rows and writes
\* nothing, the next scheduled run is still attempted and no Rebuild fetch
\* is made in the call; the runs attempted are those of the same call with
\* the Governor rejecting for the rate limit, and when the other run brings
\* nothing the store and the report are those of that call too.
C21_Http429LikeRateLimit ==
    [][\A k \in RunKeys :
         (RunStep(k) /\ \E i \in 1..Len(report'.attempts) :
                           Got429(report'.attempts, i)) =>
            LET a == report'.attempts
                cf == run(Drained(Gov, clock), store, k, "1d", report'.period,
                          report'.finazon_key, report'.has_mcal,
                          report'.end_ts - Midnight(Today), clock, "written",
                          <<>>)
                b == cf.report.attempts
            IN \A i \in 1..Len(a) :
                 Got429(a, i) =>
                   /\ a[i].count = 0
                   /\ ~a[i].wrote
                   /\ \A j \in 1..Len(a) : a[j].label = "GapFill"
                   /\ Len(a) = Min(2, Len(GroupRuns(StoreGaps(k).missing_dates,
                                                    <<>>)))
                   /\ Len(b) = Len(a)
                   /\ ~b[i].allowed
                   /\ b[i].reason = REASON_RPM
                   /\ \A j \in 1..Len(a) :
                         /\ b[j].label = a[j].label
                         /\ b[j].start_ts = a[j].start_ts
                         /\ b[j].end_ts = a[j].end_ts
                   /\ (\A j \in 1..Len(a) : a[j].count = 0) =>
                         /\ store' = cf.store
                         /\ report'.df = cf.report.df
                         /\ report'.coverage = cf.report.coverage
                         /\ report'.missing_dates = cf.report.missing_dates
                         /\ report'.source = cf.report.source
                         /\ report'.invalid_ohlc_count
                              = cf.report.invalid_ohlc_count]_vars

\* A call's first Gap-Fill fetch was answered 429 and its second one
\* brought rows.
C21_Witness ==
    /\ report.ran
    /\ Len(report.attempts) = 2
    /\ Got429(report.attempts, 1)
    /\ report.attempts[1].count = 0
    /\ report.attempts[2].http
    /\ report.attempts[2].outcome = "rows"
    /\ report.attempts[2].count > 0


\* ------------------------------------------------------------------ C22
\* The rows of the store that carry the primary key of n.
RowsOfKey(st, n) == {r \in st : RowKey(r) = RowKey(n)}

OneRowPerKey(st) == \A n \in st : RowsOfKey(st, n) = {n}

\* The commit of writer t.
CommitStep(t) == pc[t] = "executed" /\ pc'[t] = "idle"

\* C22: idempotent upsert.  After any sequence of save_v2 calls the store
\* holds at most one row per natural key (symbol, interval, timestamp,
\* source, adjustment); a save_v2 whose records are all stored already
\* leaves the store as it was, and after a save_v2 every key it wrote has
\* exactly one row, holding the values written.
C22_IdempotentUpsert ==
    [][/\ OneRowPerKey(store')
       /\ \A t \in Threads :
            CommitStep(t) =>
              /\ loc[t].records \subseteq store => store' = store
              /\ \A n \in loc[t].records : RowsOfKey(store', n) = {n}
              /\ Cardinality(store') =
                   Cardinality(store) +
                   Cardinality({n \in loc[t].records :
                                  RowsOfKey(store, n) = {}})]_vars

\* A commit has put new values in the place of a stored row, among the rows
\* of other keys.
C22_Witness ==
    /\ last.op = "save_v2"
    /\ last.outcome = "replaced"
    /\ Cardinality(store) >= 3
    /\ \E r \in store : r.source = "legacy_bridge"


\* ------------------------------------------------------------------ C24
\* C24: store isolation under concurrent writers.  Whatever the
\* interleaving of the save_v2 calls, the store changes at commits only; a
\* commit leaves every row whose key it does not write, and so every row of
\* another symbol, as it was, and leaves for each key it writes exactly one
\* row, holding its values: of two writers of one key, the one that commits
\* last is the one whose values stay.
C24_IsolatedWriters ==
    [][/\ (\A t \in Threads : ~CommitStep(t)) => store' = store
       /\ \A t \in Threads :
            CommitStep(t) =>
              /\ {r \in store : RowsOfKey(loc[t].records, r) = {}}
                   = {r \in store' : RowsOfKey(loc[t].records, r) = {}}
              /\ \A r \in store :
                   (\A n \in loc[t].records : n.symbol # r.symbol)
                       => r \in store'
              /\ \A n \in loc[t].records : RowsOfKey(store', n) = {n}]_vars

\* A writer has committed over the row of a key while the other writer
\* holds other values for the same key, next to rows of the other symbol.
C24_Witness ==
    /\ last.op = "save_v2"
    /\ last.outcome = "replaced"
    /\ \E t \in Threads :
         /\ pc[t] = "built"
         /\ \E n \in loc[t].records :
              /\ RowsOfKey(store, n) # {}
              /\ n \notin store
    /\ \E r1, r2 \in store : r1.symbol # r2.symbol


\* ------------------------------------------------------------------ C23
\* The reader's call and the frame it holds.
Asked == loc["t1"]

\* The stored rows the call asks for.
Matching(q) ==
    {r \in store : /\ r.symbol = q.symbol
                   /\ r.interval = q.interval
                   /\ q.start_ts <= r.timestamp
                   /\ r.timestamp <= q.end_ts}

\* C23: range query.  get_v2(symbol, interval, start_ts, end_ts) returns
\* exactly the stored rows of that symbol and interval with start_ts <=
\* timestamp <= end_ts, each once, in ascending order of timestamp, and no
\* row of another symbol or interval.
C23_RangeQuery ==
    pc["t1"] = "read" =>
        /\ {Asked.rows[i] : i \in 1..Len(Asked.rows)}
             = {[Ticker |-> r.symbol, Date |-> r.timestamp,
                 source |-> r.source, Open |-> r.open, High |-> r.high,
                 Low |-> r.low, Close |-> r.close] : r \in Matching(Asked)}
        /\ Len(Asked.rows) = Cardinality(Matching(Asked))
        /\ \A i, j \in 1..Len(Asked.rows) :
             i < j => Asked.rows[i].Date <= Asked.rows[j].Date
        /\ \A i \in 1..Len(Asked.rows) :
             /\ Asked.rows[i].Ticker = Asked.symbol
             /\ Asked.interval = "1d"

\* A call that returned the bars of two days, the row at end_ts among them,
\* from a store that holds bars of another symbol too.
C23_Witness ==
    /\ pc["t1"] = "read"
    /\ Len(Asked.rows) >= 2
    /\ Asked.rows[1].Date < Asked.rows[Len(Asked.rows)].Date
    /\ Asked.rows[Len(Asked.rows)].Date = Asked.end_ts
    /\ \E r \in store : r.symbol # Asked.symbol


\* ------------------------------------------------------------------ C25
\* C25: unique timestamps in the served series.  The bars run() returns for
\* one symbol and interval hold at most one bar per timestamp, whatever the
\* store holds, bars of one timestamp under the sources "finazon" and
\* "legacy_bridge" included.
C25_UniqueTimestamps ==
    report.ran => \A f, g \in report.df : f.Date = g.Date => f = g


\* ------------------------------------------------------------------ C26
\* The days of the run the i-th attempt asked for.
RunOf(a, i) == DateOf(a[i].start_ts)..(DateOf(a[i].end_ts) - 1)

\* The call consulted the Governor once per run of missing dates, every
\* time with a grant, and the upstream returned a valid bar for every date
\* of the run, which the store now holds.
EveryRunFilled(k, a) ==
    /\ a # <<>>
    /\ \A i \in 1..Len(a) :
         /\ a[i].label = "GapFill"
         /\ a[i].allowed
         /\ a[i].http
         /\ a[i].outcome = "rows"
         /\ \A d \in RunOf(a, i) :
              \E r \in store' : /\ r.symbol = k
                                /\ r.timestamp = Midnight(d)
                                /\ r.source = "finazon"
                                /\ ~InvalidOhlc(FrameOf(r))

\* C26: successful gap fill reaches full coverage.  When a credential is
\* present, the missing dates are past dates lying in at most 2 runs, the
\* Governor grants every fetch and the upstream returns a valid bar for
\* every date of each run, run() classifies Gap-Fill, issues one fetch per
\* run, bounded to the run, persists the bars and returns missing_count = 0
\* and coverage = 1.0.
C26_GapFillReachesFullCoverage ==
    [][\A k \in RunKeys :
         (/\ RunStep(k)
          /\ HasCredential(report'.finazon_key)
          /\ Len(GroupRuns(report'.first.missing_dates, <<>>)) \in 1..2
          /\ \A d \in report'.first.missing_dates : d < Today
          /\ EveryRunFilled(k, report'.attempts))
         => /\ Len(report'.attempts)
                 = Len(GroupRuns(report'.first.missing_dates, <<>>))
            /\ {RunOf(report'.attempts, i) :
                   i \in 1..Len(report'.attempts)}
                 = {MinOf(g)..MaxOf(g) :
                      g \in {GroupRuns(report'.first.missing_dates, <<>>)[j] :
                               j \in 1..Len(GroupRuns(
                                   report'.first.missing_dates, <<>>))}}
            /\ report'.missing_count = 0
            /\ report'.coverage.num = report'.coverage.den]_vars


\* ------------------------------------------------------------------ C29
\* C29: a daily-ceiling rejection ends the fetch round.  During a Gap-Fill
\* with two scheduled runs, once allow_request answers "Daily Budget
\* Exceeded" for a run, the call makes no further fetch attempt: the
\* Governor is not consulted again and no request is sent for the run that
\* remains.
C29_DailyRejectionEndsRound ==
    [][\A k \in RunKeys :
         RunStep(k) =>
           \A i \in 1..Len(report'.attempts) :
             (/\ report'.attempts[i].label = "GapFill"
              /\ ~report'.attempts[i].allowed
              /\ report'.attempts[i].reason = REASON_DAILY)
             => Len(report'.attempts) = i]_vars


\* ------------------------------------------------------------------ C30
\* A call of _smart_fill for ticker k.
FillStep(k) == ~report.ran /\ report'.ran /\ last'.op = "smart_fill"
                /\ report'.ticker = k

\* The runs of missing dates the call found, longest first, two at most.
Scheduled ==
    TopGroups(SortGroups(GroupRuns(report'.first.missing_dates, <<>>), <<>>))

\* The valid bars of ticker k the store holds after the call.
HeldAfter(k) ==
    {DateOf(r.timestamp) :
        r \in {x \in store' : x.symbol = k /\ x.source = "finazon"
                              /\ ~InvalidOhlc(FrameOf(x))}}

\* C30: a rate-limit rejection does not abort the other run.  During a
\* Gap-Fill with two scheduled runs, when allow_request rejects the first
\* run with the rate-limit reason, the second run is attempted all the
\* same: the Governor is consulted for it at the later reading of the
\* clock, and when it grants, the request for the second run is sent and
\* the rows it returns are persisted.
C30_RateLimitDoesNotAbort ==
    [][\A k \in RunKeys :
         (/\ FillStep(k)
          /\ ~IsRebuild(report'.first.coverage)
          /\ Len(Scheduled) = 2
          /\ Len(report'.attempts) >= 1
          /\ ~report'.attempts[1].allowed
          /\ report'.attempts[1].reason = REASON_RPM)
         => /\ Len(report'.attempts) = 2
            /\ report'.attempts[2].label = "GapFill"
            /\ report'.attempts[2].start_ts = Midnight(MinOf(Scheduled[2]))
            /\ report'.attempts[2].end_ts = Midnight(MaxOf(Scheduled[2]) + 1)
            /\ report'.attempts[2].allowed
                 = HasToken(RefillTokens(tokens, last_token_update,
                                         clock').tokens)
            /\ grants_issued' = grants_issued
                                + (IF report'.attempts[2].allowed THEN 1
                                   ELSE 0)
            /\ report'.attempts[2].allowed => report'.attempts[2].http
            /\ ~report'.attempts[2].allowed =>
                 /\ ~report'.attempts[2].http
                 /\ report'.attempts[2].reason = REASON_RPM
            /\ (report'.attempts[2].http
                /\ report'.attempts[2].outcome = "rows")
                 => {d \in Scheduled[2] : IsTradingDay(d)}
                      \subseteq HeldAfter(k)]_vars

\* The first run was rejected for the rate, the second was granted a
\* second later, sent, and its bars are in the store.
C30_Witness ==
    /\ report.ran
    /\ last.op = "smart_fill"
    /\ Len(report.attempts) = 2
    /\ ~report.attempts[1].allowed
    /\ report.attempts[1].reason = REASON_RPM
    /\ report.attempts[2].allowed
    /\ report.attempts[2].http
    /\ report.attempts[2].wrote


\* ------------------------------------------------------------------ C27
\* A call of get_status, and a call of allow_request.
StatusStep == last'.op = "status" /\ clock' = clock /\ today' = today

AllowStep == last'.op = "allow" /\ clock' = clock /\ today' = today

\* C27: status report consistency.  In every reachable Governor state,
\* status() returns used equal to the day's granted total, remaining equal
\* to the daily limit (850) minus used, and power_save true exactly when
\* remaining < 150.
C27_StatusConsistent ==
    [][StatusStep =>
         /\ last'.used = ledger.today
         /\ last'.remaining = 850 - last'.used
         /\ last'.power_save = (last'.remaining < 150)]_vars

\* ------------------------------------------------------------------ C28
\* C28: status() is read-only.  A call of status() changes neither the
\* daily total, nor a per-key counter, nor the durable record, and every
\* later allow_request has the outcome (granted or not, and the reason) it
\* has in the same sequence of calls, at the same times, without the calls
\* of status().
C28_StatusReadOnly ==
    [][/\ StatusStep => state' = state /\ file' = file
       /\ AllowStep => /\ last'.granted = ledger'.granted
                       /\ last'.reason = ledger'.reason]_vars

\* ------------------------------------------------------------------ C31
\* The maximal runs of consecutive calendar days of a set of dates.
RunsOf(dates) ==
    {{e \in dates : \A x \in Min(d, e)..Max(d, e) : x \in dates} :
       d \in dates}

\* The run the i-th attempt of a begins in.
RunBegun(dates, a, i) ==
    {e \in dates : \A x \in Min(DateOf(a[i].start_ts), e)
                              ..Max(DateOf(a[i].start_ts), e) : x \in dates}

\* A run() that held a credential and first measured a coverage from 0.6
\* up to, not including, 0.99.
GapFillStep(k) ==
    /\ RunStep(k)
    /\ report'.finazon_key # ""
    /\ report'.first.coverage.num * 10 >= 6 * report'.first.coverage.den
    /\ report'.first.coverage.num * 100 < 99 * report'.first.coverage.den

\* C31: Gap-Fill run selection and span.  When 0.6 <= coverage < 0.99 and
\* a credential is available, the pipeline attempts fetches for at most 2
\* runs, chosen so that no unselected run is strictly longer than a selected
\* one, in descending order of run length; each attempted fetch's range is
\* exactly [midnight of the run's earliest missing date, midnight of the day
\* after the run's latest missing date], and no full-window fetch is
\* attempted.
C31_GapFillSelection ==
    [][\A k \in RunKeys : GapFillStep(k) =>
         LET a == report'.attempts
             missing == report'.first.missing_dates
             runs == RunsOf(missing)
             chosen == {RunBegun(missing, a, i) : i \in 1..Len(a)}
         IN /\ Len(a) = Min(2, Cardinality(runs))
            /\ Cardinality(chosen) = Len(a)
            /\ \A i \in 1..Len(a) :
                 /\ a[i].label = "GapFill"
                 /\ RunBegun(missing, a, i) \in runs
                 /\ a[i].start_ts = Midnight(MinOf(RunBegun(missing, a, i)))
                 /\ a[i].end_ts = Midnight(MaxOf(RunBegun(missing, a, i)) + 1)
                 /\ ~(a[i].start_ts = report'.start_ts
                      /\ a[i].end_ts = report'.end_ts)
            /\ \A u \in runs \ chosen, s \in chosen :
                 Cardinality(u) <= Cardinality(s)
            /\ \A i, j \in 1..Len(a) :
                 i < j => Cardinality(RunBegun(missing, a, i))
                            >= Cardinality(RunBegun(missing, a, j))]_vars

\* A run() whose missing dates fell into three runs, the longest of them
\* not the earliest: it was fetched first, one run was left out.
C31_Witness ==
    /\ report.ran
    /\ report.finazon_key # ""
    /\ Cardinality(RunsOf(report.first.missing_dates)) >= 2
    /\ Len(report.attempts) = 2
    /\ report.attempts[1].label = "GapFill"
    /\ report.attempts[2].start_ts < report.attempts[1].start_ts
    /\ Cardinality(RunBegun(report.first.missing_dates, report.attempts, 1))
         > Cardinality(RunBegun(report.first.missing_dates,
                                report.attempts, 2))

\* ------------------------------------------------------------------ C32
\* The last Friday and the Monday after it, before Today.
LastFriday == Today - 5

NextMonday == Today - 2

\* C32: run partition.  The Gap-Fill grouping partitions the ordered
\* missing-date set into runs such that every missing date belongs to
\* exactly one run, consecutive dates inside a run are exactly one calendar
\* day apart, and any two adjacent runs are separated by more than one
\* calendar day (so missing dates on a Friday and the following Monday fall
\* in different runs).
C32_RunPartition ==
    [][\A k \in RunKeys : GapFillStep(k) =>
         LET missing == report'.first.missing_dates
             a == report'.attempts
             groups == GroupRuns(missing, <<>>)
         IN /\ \A d \in missing :
                 Cardinality({i \in 1..Len(groups) : d \in groups[i]}) = 1
            /\ \A i \in 1..Len(groups) :
                 /\ groups[i] # {}
                 /\ groups[i] \subseteq missing
                 /\ \A d \in groups[i] :
                      d # MinOf(groups[i]) => d - 1 \in groups[i]
            /\ \A i \in 1..(Len(groups) - 1) :
                 MinOf(groups[i + 1]) - MaxOf(groups[i]) > 1
            /\ \A i \in 1..Len(groups) :
                 (LastFriday \in groups[i]) => (NextMonday \notin groups[i])
            /\ \A i \in 1..Len(a) : \E j \in 1..Len(groups) :
                 /\ a[i].start_ts = Midnight(MinOf(groups[j]))
                 /\ a[i].end_ts = Midnight(MaxOf(groups[j]) + 1)]_vars

\* A run() that missed a Friday and the Monday after it, and fetched the
\* two days as two runs.
C32_Witness ==
    /\ report.ran
    /\ report.finazon_key # ""
    /\ {LastFriday, NextMonday} \subseteq report.first.missing_dates
    /\ Len(report.attempts) = 2
    /\ \A i \in 1..2 : report.attempts[i].label = "GapFill"
    /\ {DateOf(report.attempts[i].start_ts) : i \in 1..2}
         = {LastFriday, NextMonday}
    /\ {DateOf(report.attempts[i].end_ts) : i \in 1..2}
         = {LastFriday + 1, NextMonday + 1}

\* ------------------------------------------------------------------ C33
\* The rows the fetch round of a run() reported: filled_total.
FetchedTotal(a) == SumOver([i \in 1..Len(a) |-> a[i].count], 1..Len(a))

\* What steps 2 to 4 give on the store st for the window and the schedule
\* of the report r.
Recomputed(st, r) ==
    calculate_gaps(Validated(get_v2(st, r.ticker, "1d", r.start_ts,
                                    r.end_ts)),
                   r.expected_dates, Today)

\* C33: recompute exactly once, never refetch.  If the fetch round of a
\* run() call reported at least one fetched row, the store is re-read,
\* re-validated and the gap/coverage computed again exactly once, and no
\* further allow_request or upstream call follows even if the recomputed
\* coverage is still below 0.99; if the fetch round fetched 0 rows, the
\* report is the one computed before the round.
C33_RecomputeOnce ==
    [][\A k \in RunKeys : RunStep(k) =>
         LET a == report'.attempts
         IN /\ report'.reread = (FetchedTotal(a) > 0)
            /\ FetchedTotal(a) > 0 =>
                 /\ report'.reloaded
                      = get_v2(store', k, "1d", report'.start_ts,
                               report'.end_ts)
                 /\ report'.df = Validated(report'.reloaded)
                 /\ report'.coverage = Recomputed(store', report').coverage
                 /\ report'.missing_dates
                      = Recomputed(store', report').missing_dates
                 /\ report'.missing_count
                      = Cardinality(report'.missing_dates)
                 /\ report'.source = SourceFilled(FetchedTotal(a))
            /\ FetchedTotal(a) = 0 =>
                 /\ store' = store
                 /\ report'.df = Validated(report'.loaded)
                 /\ report'.coverage = report'.first.coverage
                 /\ report'.missing_dates = report'.first.missing_dates
                 /\ report'.missing_count
                      = Cardinality(report'.first.missing_dates)
                 /\ report'.source = SOURCE_CACHED
            /\ Len(a) <= 2
            /\ \A i \in 1..Len(a) :
                 \/ /\ a[i].label = "Rebuild"
                    /\ Len(a) = 1
                 \/ /\ a[i].label = "GapFill"
                    /\ DateOf(a[i].start_ts) \in report'.first.missing_dates
            /\ grants_issued' = grants_issued + GrantsAmong(a)
            /\ http_issued' = http_issued + SentAmong(a)]_vars

\* A run() whose fetch round brought rows, and whose recomputed coverage
\* is better than the first but still below 0.99.
C33_Witness ==
    /\ report.ran
    /\ report.reread
    /\ FetchedTotal(report.attempts) > 0
    /\ report.coverage.num * report.first.coverage.den
         > report.first.coverage.num * report.coverage.den
    /\ report.coverage.num * 100 < 99 * report.coverage.den
    /\ report.missing_dates # {}

\* ------------------------------------------------------------------ C34
\* The store read that produced the bars run() returned: the re-read when
\* there was one, the first read otherwise.
ProducingRead == IF report.reread THEN report.reloaded ELSE report.loaded

\* C34: violation count reaches the final report.  In every run() result,
\* invalid_ohlc_count equals the number of invariant-violating rows that
\* were dropped from the store read that produced the returned bars; in
\* particular, when the bars are re-read after a fetch, violating rows
\* dropped in that re-read (including freshly fetched ones) are reflected
\* in the reported count, so no violating row is dropped without being
\* counted.
C34_ViolationCountReported ==
    report.ran =>
        /\ report.df \subseteq ProducingRead
        /\ \A f \in ProducingRead \ report.df : InvalidOhlc(f)
        /\ report.invalid_ohlc_count
             = Cardinality(ProducingRead \ report.df)

\* ------------------------------------------------------------------ C35
\* C35: the future is never a gap.  For every store content, including an
\* empty store, the missing-date set returned by the gap computation (and
\* hence missing_count and the dates handed to Gap-Fill) contains no date
\* at or after today's UTC date.
C35_FutureIsNeverAGap ==
    report.ran =>
        /\ \A d \in report.first.missing_dates : d < Today
        /\ \A d \in report.missing_dates : d < Today
        /\ report.missing_count
             <= Cardinality({d \in report.expected_dates : d < Today})

\* ------------------------------------------------------------------ C36
\* The balance a call at the present reading finds after its refill, and
\* the balance accrued by then from the bucket the last grant or get_status
\* left.
BalanceSeen == refill_tokens(tokens, last_token_update, clock).tokens

BalanceAccrued ==
    refill_tokens(ledger.base.tokens, ledger.base.last_token_update,
                  clock).tokens

\* C36: rate-limit rejection consumes nothing.  When allow_request is
\* rejected with the rate-limit reason, the token balance is left unchanged
\* by the call (no token is consumed and no debt is recorded), so the
\* balance never becomes negative and a later call sees exactly the tokens
\* accrued over elapsed time.
C36_RateRejectionConsumesNothing ==
    [][/\ (AllowStep /\ last'.reason = REASON_RPM) =>
            /\ tokens' = BalanceSeen
            /\ ~LessDouble(tokens', FromInt(0))
            /\ state' = state
       /\ (AllowStep /\ last'.reason \in {REASON_OK, REASON_RPM}) =>
            BalanceSeen = BalanceAccrued]_vars

\* ------------------------------------------------------------------ C37
\* C37: admission outcomes are values with a fixed priority.
\* allow_request never raises for an admission failure and always returns
\* a pair (granted, reason) with granted true if and only if reason is
\* "OK"; when several constraints are violated at once the reason is the
\* daily-ceiling one first, then the per-key one, then the rate-limit one,
\* and a daily or per-key rejection neither refills nor consumes tokens.
C37_AdmissionPriority ==
    [][\A k \in Keys : AllowRequest(k) =>
         /\ last'.granted = (last'.reason = REASON_OK)
         /\ last'.reason
              \in {REASON_OK, REASON_DAILY, TickerReason(k), REASON_RPM}
         /\ state.daily_requests >= DAILY_LIMIT_APP
              => last'.reason = REASON_DAILY
         /\ (/\ state.daily_requests < DAILY_LIMIT_APP
             /\ state.tickers[k] >= TICKER_LIMIT)
              => last'.reason = TickerReason(k)
         /\ (/\ state.daily_requests < DAILY_LIMIT_APP
             /\ state.tickers[k] < TICKER_LIMIT)
              => last'.reason = IF Refilled >= TOKEN THEN REASON_OK
                                ELSE REASON_RPM
         /\ last'.reason \in {REASON_DAILY, TickerReason(k)}
              => /\ tokens' = tokens
                 /\ last_token_update' = last_token_update
                 /\ state' = state
                 /\ file' = file]_vars

\* The three constraints were violated at once, a second after the last
\* grant: the call was rejected for the daily ceiling and the bucket was
\* not refilled.
C37_Witness ==
    /\ last.op = "allow"
    /\ last.reason = REASON_DAILY
    /\ state.daily_requests >= DAILY_LIMIT_APP
    /\ state.tickers[last.ticker] >= TICKER_LIMIT
    /\ Refilled < TOKEN
    /\ last_token_update < clock
    /\ tokens < Refilled

\* ------------------------------------------------------------------ C38
\* A call of allow_request or get_status.
CallStep == last'.op \in {"allow", "status"} /\ clock' = clock /\ today' = today

\* C38: counter consistency.  Starting from a fresh day and after any
\* sequence of sequential allow_request and status calls, the global
\* granted total equals the sum of all per-key counters, the total never
\* decreases within a process lifetime, and each call changes it by at
\* most 1.
C38_CounterConsistency ==
    /\ [](/\ state.daily_requests = SumOver(state.tickers, Keys)
          /\ state.daily_requests = grants_issued)
    /\ [][/\ state'.daily_requests >= state.daily_requests
          /\ CallStep =>
               /\ state'.daily_requests <= state.daily_requests + 1
               /\ state'.daily_requests
                    = state.daily_requests
                      + (IF last'.op = "allow" /\ last'.granted THEN 1
                         ELSE 0)]_vars

\* Grants for two keys, then a call of status after midnight: the total
\* is the sum of the two counters.
C38_Witness ==
    /\ last.op = "status"
    /\ today > 1
    /\ \A k \in Keys : state.tickers[k] >= 2
    /\ state.daily_requests > BURST_LIMIT
    /\ state.daily_requests = SumOver(state.tickers, Keys)

\* ------------------------------------------------------------------ C39
\* A restart of the process.
RebootStep == last'.op = "restart" /\ restarts' = restarts + 1

\* C39: restart round-trip of governance state.  After a process restart
\* on the same calendar day, the Governor's daily total and per-key
\* counters equal the values written by the last successful persist, so
\* across any number of same-day restarts (with every persist succeeding)
\* the day's total grants never exceed the daily limit and no key exceeds
\* its cap; after a restart on a later day the counters start at zero.
\* The day's file holds a persist of the day when the books count a grant
\* for the day.
C39_RestartRoundTrip ==
    /\ [](/\ ledger.today <= DAILY_LIMIT_APP
          /\ \A k \in Keys : state.tickers[k] <= TICKER_LIMIT)
    /\ [][RebootStep =>
            /\ (file.kind = "json" /\ ledger.today > 0) =>
                 /\ state'.daily_requests = file.data.daily_requests
                 /\ state'.tickers = file.data.tickers
                 /\ state'.daily_requests = ledger.today
            /\ (file.kind = "json" /\ ledger.today = 0
                /\ file.data.date < today) =>
                 /\ state'.daily_requests = 0
                 /\ \A k \in Keys : state'.tickers[k] = 0]_vars

\* ------------------------------------------------------------------ C40
\* The granted fetches of a run() whose request brought no rows: it failed,
\* was answered with a status other than 200, or with no data.
Unserved(a) ==
    {i \in 1..Len(a) :
        /\ a[i].allowed
        /\ a[i].http
        /\ a[i].outcome \in {"error_status", "status_429", "empty",
                             "exception", "malformed"}}

\* C40: no refund for failed fetches.  A granted fetch whose upstream call
\* fails, returns non-200 or returns no data still leaves the Governor's
\* daily total and that symbol's per-key counter incremented by 1 and one
\* token consumed; a run() call for symbol S changes the Governor's
\* counters by exactly the number of grants it received, all on key S, and
\* never changes another symbol's counter.
C40_NoRefund ==
    [][\A k \in RunKeys : RunStep(k) =>
         LET a == report'.attempts
             n == GrantsAmong(a)
         IN /\ Unserved(a) \subseteq {i \in 1..Len(a) : a[i].count = 0}
            /\ n >= Cardinality(Unserved(a))
            /\ state'.daily_requests = state.daily_requests + n
            /\ state'.tickers[k] = state.tickers[k] + n
            /\ \A j \in Keys \ {k} : state'.tickers[j] = state.tickers[j]
            /\ state'.date = state.date
            /\ n > 0 => tokens' = Refilled - n * TOKEN
            /\ grants_issued' = grants_issued + n]_vars

\* A run() both of whose fetches were granted and neither of which brought
\* rows: the total and the symbol's counter are two higher than at start,
\* another symbol's counter is as it was.
C40_Witness ==
    /\ report.ran
    /\ Len(report.attempts) = 2
    /\ Cardinality(Unserved(report.attempts)) = 2
    /\ state.daily_requests = boot.state.daily_requests + 2
    /\ state.tickers[report.ticker] = boot.state.tickers[report.ticker] + 2
    /\ \A j \in Keys \ {report.ticker} :
         state.tickers[j] = boot.state.tickers[j]
    /\ tokens = Min(Ceiling, boot.tokens) - 2 * TOKEN

====
